---- MODULE Spec2Model ----
(***************************************************************************)
(* Scan orchestration and deduplication pipeline of MediaScanner:          *)
(* feed normalisation, the two-tier deduplicator, the fetch worker, the    *)
(* token-bucket rate limiter, the retry engine and the circuit breaker.    *)
(*                                                                         *)
(* Text is modelled as sequences of one-character strings, so that the     *)
(* markup stripping, trimming and substring tests are computed the way     *)
(* the code computes them.                                                 *)
(***************************************************************************)
EXTENDS Integers, Sequences, FiniteSets, TLC

VARIABLES
    item,        \* normaliser: the raw feed item under normalisation
    normResult,  \* normaliser: result of normalizeItem, or the "idle" marker
    cache,       \* key-value cache: url hash -> "none" | "new" | "exists"
    articles,    \* the articles table, in insertion order
    job,         \* fetch workers: the local state of the job each one runs
    jobsStarted, \* number of fetch jobs taken from the queue so far
    faults,      \* number of cache and store failures injected so far
    createdCount,\* history: per url hash, the inserts that returned a row
    insertCalls, \* history: per url hash, the inserts the store executed
    markedStored,\* history: hashes inserted and then marked by markBatchAsStored
    now,         \* Date.now(), in milliseconds
    limiter,     \* RateLimiter: tokens and lastRefill
    waiter,      \* RateLimiter: the callers of waitForToken and tryConsume
    resolveLog,  \* history: the waitForToken calls that resolved, in order
    retry,       \* withRetry: the state of one call
    breaker,     \* CircuitBreaker: failures, lastFailure and state
    call,        \* CircuitBreaker: the callers of execute
    lastTrial,   \* history: how the last half-open trial call ended
    streak,      \* history: the failures recorded since the last success
    sources,     \* the sources table: error_count, last_error, last_fetched_at
    scanLogs,    \* the scan_logs table: per source, the status of each log
    scans,       \* the scan-orchestrator queue: the scan jobs and their runs
    fetchJobs,   \* the rss-scan queue: the fetch jobs and their attempts
    failures,    \* number of failures injected into scans, fetch and classification jobs
    fetchResult, \* fetchFeed: the result of one call and what the job makes of it
    analysisJobs,\* the ai-analysis queue: the classification jobs
    articleTopics,\* the article_topics table
    digestJobs,  \* the daily-summary queue: its jobs and the triggers so far
    postJobs,    \* the post-generation queue
    matcher,     \* checkAgainstTopics: the arguments and result of one call
    response,    \* analyzeArticleForTopics: one response of the service and its results
    cleanup,     \* one cleanup run: the articles before and after, and what it returns
    selection,   \* runIncrementalScan: the sources table, the request and the jobs added
    stages,      \* processRssScan: the items of one job and the stages run so far
    batch        \* normalizeItems: the items of one call and its result

history == <<createdCount, insertCalls, markedStored>>
normVars == <<item, normResult>>
pipeVars == <<cache, articles, job, jobsStarted, faults, history>>
limiterVars == <<limiter, waiter, resolveLog>>
retryVars == <<retry, fetchResult>>
breakerVars == <<breaker, call, lastTrial, streak>>
scanVars == <<sources, scanLogs, scans, fetchJobs, failures>>
callVars == <<response, cleanup, selection, stages, batch>>
analysisVars == <<analysisJobs, articleTopics, postJobs, digestJobs, matcher, callVars>>
vars == <<normVars, pipeVars, now, limiterVars, retryVars, breakerVars, scanVars, analysisVars>>

\* what the fetch pipeline leaves alone
notPipeline == <<normVars, now, limiterVars, retryVars, breakerVars, scanVars, analysisVars>>

----------------------------------------------------------------------------
(* Strings *)

\* n copies of the character c
Rep(c, n) == [i \in 1..n |-> c]

Min(a, b) == IF a <= b THEN a ELSE b

\* String.prototype.startsWith
StartsWith(s, pre) == Len(s) >= Len(pre) /\ SubSeq(s, 1, Len(pre)) = pre

\* String.prototype.includes
Includes(s, sub) ==
    \E i \in 0..(Len(s) - Len(sub)) : SubSeq(s, i + 1, i + Len(sub)) = sub

\* String.prototype.slice(0, n)
Slice(s, n) == SubSeq(s, 1, Min(n, Len(s)))

\* String.prototype.replace(/pat/g, rep) for a literal pattern: leftmost,
\* non-overlapping matches, scanning continues after each replacement
RECURSIVE ReplaceAll(_, _, _)
ReplaceAll(s, pat, rep) ==
    IF Len(s) < Len(pat) THEN s
    ELSE IF SubSeq(s, 1, Len(pat)) = pat
         THEN rep \o ReplaceAll(SubSeq(s, Len(pat) + 1, Len(s)), pat, rep)
         ELSE <<Head(s)>> \o ReplaceAll(Tail(s), pat, rep)

\* index of the first ">" of s, 0 when there is none
RECURSIVE FirstGt(_, _)
FirstGt(s, i) ==
    IF i > Len(s) THEN 0
    ELSE IF s[i] = ">" THEN i ELSE FirstGt(s, i + 1)

\* .replace(/<[^>]+>/g, ' '): a "<", one or more characters other than ">",
\* then ">", each match replaced by one blank
RECURSIVE RemoveTags(_)
RemoveTags(s) ==
    IF s = <<>> THEN s
    ELSE IF Head(s) = "<" /\ FirstGt(s, 2) > 2
         THEN <<" ">> \o RemoveTags(SubSeq(s, FirstGt(s, 2) + 1, Len(s)))
         ELSE <<Head(s)>> \o RemoveTags(Tail(s))

\* .replace(/\s+/g, ' ')
RECURSIVE CollapseWs(_)
CollapseWs(s) ==
    IF Len(s) < 2 THEN s
    ELSE IF s[1] = " " /\ s[2] = " " THEN CollapseWs(Tail(s))
         ELSE <<Head(s)>> \o CollapseWs(Tail(s))

RECURSIVE TrimLeft(_)
TrimLeft(s) == IF s # <<>> /\ Head(s) = " " THEN TrimLeft(Tail(s)) ELSE s

RECURSIVE TrimRight(_)
TrimRight(s) ==
    IF s # <<>> /\ s[Len(s)] = " " THEN TrimRight(SubSeq(s, 1, Len(s) - 1)) ELSE s

\* String.prototype.trim
Trim(s) == TrimRight(TrimLeft(s))

----------------------------------------------------------------------------
(* RSSNormalizerService *)

\* The feed texts of the model hold no <script> or <style> element, so the
\* first two replacements of stripHtml match nothing; the others are applied
\* in the order of the code.
stripHtml(html) ==
    LET a == RemoveTags(html)
        b == ReplaceAll(a, <<"&", "n", "b", "s", "p", ";">>, <<" ">>)
        c == ReplaceAll(b, <<"&", "a", "m", "p", ";">>, <<"&">>)
        d == ReplaceAll(c, <<"&", "l", "t", ";">>, <<"<">>)
        e == ReplaceAll(d, <<"&", "g", "t", ";">>, <<">">>)
        f == ReplaceAll(e, <<"&", "q", "u", "o", "t", ";">>, <<"\"">>)
        g == ReplaceAll(f, <<"&", "#", "3", "9", ";">>, <<"'">>)
    IN  Trim(CollapseWs(g))

cleanText(text) == Trim(CollapseWs(stripHtml(text)))

TitleMinLength == 5
LedeMinLength == 30
LedeMaxLength == 500
FreshnessDays == 7

\* A feed text that is absent (undefined) is the empty string: the code only
\* tests these fields for truthiness, which undefined and "" share.
NoText == <<>>

\* extractLede: the first of contentSnippet, summary, description, content
\* that is non-blank and has at least 30 characters once stripped; NoText
\* stands for null
RECURSIVE FirstLede(_)
FirstLede(candidates) ==
    IF candidates = <<>> THEN NoText
    ELSE LET candidate == Head(candidates)
             cleaned == stripHtml(candidate)
         IN  IF candidate # NoText /\ Len(Trim(candidate)) > 0
                  /\ Len(cleaned) >= LedeMinLength
             THEN Slice(cleaned, LedeMaxLength)
             ELSE FirstLede(Tail(candidates))

extractLede(it) ==
    FirstLede(<<it.contentSnippet, it.summary, it.description, it.content>>)

\* new URL(cleaned).href for the URLs of the model: parsing fails when no
\* host follows the scheme, and an empty path is written as "/"
SchemeOf(u) == IF StartsWith(u, <<"h", "t", "t", "p", "s", ":", "/", "/">>) THEN <<"h", "t", "t", "p", "s", ":", "/", "/">> ELSE <<"h", "t", "t", "p", ":", "/", "/">>
AfterScheme(u) == SubSeq(u, Len(SchemeOf(u)) + 1, Len(u))
UrlParses(u) == AfterScheme(u) # <<>> /\ Head(AfterScheme(u)) # "/"
UrlHref(u) == IF Includes(AfterScheme(u), <<"/">>) THEN u ELSE u \o <<"/">>

\* cleanUrl: NoText stands for null
cleanUrl(url) ==
    LET cleaned == Trim(url)
    IN  IF ~StartsWith(cleaned, <<"h", "t", "t", "p", ":", "/", "/">>) /\ ~StartsWith(cleaned, <<"h", "t", "t", "p", "s", ":", "/", "/">>)
        THEN NoText
        ELSE IF UrlParses(cleaned) THEN UrlHref(cleaned) ELSE NoText

\* hashUrl: the SHA-256 digest of the URL, a deterministic value that
\* differs for different URLs
hashUrl(url) == [sha256 |-> url]

\* Dates are day numbers; 0 is an absent date string and -1 one that
\* Date cannot parse. NoDate is the undefined result of parseDate.
AbsentDate == 0
BadDate == 0 - 1
NoDate == 0 - 2

parseDate(dateString, today) ==
    IF dateString = AbsentDate THEN NoDate
    ELSE IF dateString = BadDate THEN NoDate
    ELSE IF dateString > today THEN today
    ELSE dateString

isOlderThan(date, days, today) == date < today - days

\* item.pubDate || item.isoDate
FirstDate(it) == IF it.pubDate # AbsentDate THEN it.pubDate ELSE it.isoDate

\* normalizeItem with the title tested before the link
normalizeItemTitleFirst(it, sourceId, today) ==
    LET url == cleanUrl(it.link)
        lede == extractLede(it)
        publishedAt == parseDate(FirstDate(it), today)
    IN  IF it.title = NoText \/ Len(Trim(it.title)) < TitleMinLength
        THEN [ok |-> FALSE, reason |-> "missing_or_short_title"]
        ELSE IF it.link = NoText THEN [ok |-> FALSE, reason |-> "missing_link"]
        ELSE IF url = NoText THEN [ok |-> FALSE, reason |-> "invalid_url"]
        ELSE IF lede = NoText \/ Len(lede) < LedeMinLength
             THEN [ok |-> FALSE, reason |-> "insufficient_content"]
        ELSE IF publishedAt # NoDate /\ isOlderThan(publishedAt, FreshnessDays, today)
             THEN [ok |-> FALSE, reason |-> "too_old"]
        ELSE [ok |-> TRUE,
              article |-> [sourceId |-> sourceId,
                           externalId |-> IF it.guid # NoText THEN it.guid ELSE url,
                           url |-> url,
                           urlHash |-> hashUrl(url),
                           title |-> cleanText(it.title),
                           lede |-> cleanText(lede),
                           publishedAt |-> publishedAt]]

\* normalizeItem: [article |-> ...] or [reason |-> ...]
normalizeItem(it, sourceId, today) ==
    LET url == cleanUrl(it.link)
        lede == extractLede(it)
        publishedAt == parseDate(FirstDate(it), today)
    IN  IF it.link = NoText THEN [ok |-> FALSE, reason |-> "missing_link"]
        ELSE IF it.title = NoText \/ Len(Trim(it.title)) < TitleMinLength
             THEN [ok |-> FALSE, reason |-> "missing_or_short_title"]
        ELSE IF url = NoText THEN [ok |-> FALSE, reason |-> "invalid_url"]
        ELSE IF lede = NoText \/ Len(lede) < LedeMinLength
             THEN [ok |-> FALSE, reason |-> "insufficient_content"]
        ELSE IF publishedAt # NoDate /\ isOlderThan(publishedAt, FreshnessDays, today)
             THEN [ok |-> FALSE, reason |-> "too_old"]
        ELSE [ok |-> TRUE,
              article |-> [sourceId |-> sourceId,
                           externalId |-> IF it.guid # NoText THEN it.guid ELSE url,
                           url |-> url,
                           urlHash |-> hashUrl(url),
                           title |-> cleanText(it.title),
                           lede |-> cleanText(lede),
                           publishedAt |-> publishedAt]]

\* normalizeItems: the candidates in feed order, the number of skipped
\* items and the number of items skipped for each reason
Reasons ==
    {"missing_link", "missing_or_short_title", "invalid_url",
     "insufficient_content", "too_old"}

RECURSIVE normalizedArticles(_, _, _)
normalizedArticles(items, sourceId, today) ==
    IF items = <<>> THEN <<>>
    ELSE LET result == normalizeItem(Head(items), sourceId, today)
             rest == normalizedArticles(Tail(items), sourceId, today)
         IN  IF result.ok THEN <<result.article>> \o rest ELSE rest

normalizeItems(items, sourceId, today) ==
    LET results == [i \in 1..Len(items) |-> normalizeItem(items[i], sourceId, today)]
        skippedAt == {i \in 1..Len(items) : ~results[i].ok}
    IN  [articles |-> normalizedArticles(items, sourceId, today),
         skipped |-> Cardinality(skippedAt),
         reasons |-> [r \in Reasons |->
                        Cardinality({i \in skippedAt : results[i].reason = r})]]

----------------------------------------------------------------------------
(* Feed texts of the model *)

Today == 20

Title4 == <<"a", "b", "c", "d">>
Title5 == <<"a", "b", "c", "d", "e">>
TitleMarkup == <<"<", "b", ">", "a", "b", "<", "/", "b", ">">>
TitlePadded == <<" ", "a", "b", "c", "d", " ">>

Lede29 == Rep("a", 29)
Lede30 == Rep("a", 30)
LedeMarkup == <<"<", "p", ">">> \o Rep("a", 27) \o <<"<", "/", "p", ">">>
LedeEntities == <<"&", "l", "t", ";", "p", "&", "g", "t", ";">> \o Rep("a", 27)
LedeBlank == Rep(" ", 31)

LinkA == <<"h", "t", "t", "p", ":", "/", "/", "a", "/", "1">>
LinkB == <<" ", "h", "t", "t", "p", "s", ":", "/", "/", "b", " ">>
LinkFtp == <<"f", "t", "p", ":", "/", "/", "a", "/", "1">>
LinkNoHost == <<"h", "t", "t", "p", ":", "/", "/">>

Titles == {NoText, Title4, Title5, TitleMarkup, TitlePadded}
Ledes == {NoText, Lede29, Lede30, LedeMarkup, LedeEntities, LedeBlank}
Links == {NoText, LinkA, LinkB, LinkFtp, LinkNoHost}
Dates == {AbsentDate, BadDate, Today + 1, Today - FreshnessDays, Today - FreshnessDays - 1}

RawItem(link, title, snippet, description, pubDate) ==
    [link |-> link, title |-> title, guid |-> NoText,
     contentSnippet |-> snippet, summary |-> NoText,
     description |-> description, content |-> NoText,
     pubDate |-> pubDate, isoDate |-> AbsentDate]

NormItems ==
    {RawItem(l, t, s, d, p) : l \in Links, t \in Titles, s \in Ledes,
                              d \in {NoText, Lede30}, p \in Dates}

----------------------------------------------------------------------------
(* RSSFetcherService.normalizeItem: the parser's item as handed on *)

Either(a, b) == IF a # NoText THEN a ELSE b

FetcherNormalizeItem(it) ==
    [guid |-> Either(it.guid, it.link),
     title |-> Trim(it.title),
     link |-> Trim(it.link),
     pubDate |-> IF it.pubDate # AbsentDate THEN it.pubDate ELSE it.isoDate,
     isoDate |-> it.isoDate,
     content |-> Either(it.contentSnippet, Either(it.content, it.description)),
     contentSnippet |-> it.contentSnippet,
     summary |-> Either(it.summary, Either(it.contentSnippet, it.description)),
     description |-> it.description]

----------------------------------------------------------------------------
(* ArticleRepository.create and the deduplicator's store and cache calls *)

\* ArticleCreate without its ON CONFLICT clause and with no unique index on
\* url_hash: every insert adds a row
ArticleCreatePlainInsert(rows, input) ==
    [rows |-> Append(rows, [id |-> Len(rows) + 1, urlHash |-> hashUrl(input.url),
                            url |-> input.url, status |-> "pending"]),
     created |-> TRUE]

\* INSERT ... ON CONFLICT (url_hash) DO NOTHING RETURNING *: the table after
\* the statement and whether a row was returned
ArticleCreate(rows, input) ==
    LET urlHash == hashUrl(input.url)
    IN  IF \E i \in DOMAIN rows : rows[i].urlHash = urlHash
        THEN [rows |-> rows, created |-> FALSE]
        ELSE [rows |-> Append(rows, [id |-> Len(rows) + 1, urlHash |-> urlHash,
                                     url |-> input.url, status |-> "pending"]),
              created |-> TRUE]

\* SELECT url_hash FROM articles WHERE url_hash IN (...)
batchCheckDatabase(rows, urlHashes) ==
    {h \in urlHashes : \E i \in DOMAIN rows : rows[i].urlHash = h}

\* batchCheckCache: 'exists', 'new' or null ("none") for each hash; a failed
\* MGET gives null for every hash
batchCheckCache(c, urlHashes, failed) ==
    [h \in urlHashes |-> IF failed THEN "none" ELSE c[h]]

\* cacheUrlHash: SETEX of 'exists' or 'new'; a failed write is logged and
\* leaves the cache as it was
cacheUrlHash(c, urlHash, exists, failed) ==
    IF failed THEN c
    ELSE [c EXCEPT ![urlHash] = IF exists THEN "exists" ELSE "new"]

\* markBatchAsStored: one pipeline of SETEX 'exists', one per url
markBatchAsStored(c, urls) ==
    [h \in DOMAIN c |-> IF \E i \in DOMAIN urls : hashUrl(urls[i]) = h
                        THEN "exists" ELSE c[h]]

\* Lists of candidates are kept as lists of positions in the list that
\* normalizeItems returned.
Positions(as) == [i \in DOMAIN as |-> i]

\* filterDuplicates, first loop: the split of the candidates by cache result
CachedDuplicates(as, res) ==
    SelectSeq(Positions(as), LAMBDA i : res[as[i].urlHash] = "exists")
CachedNew(as, res) ==
    SelectSeq(Positions(as), LAMBDA i : res[as[i].urlHash] = "new")
\* the third branch of the loop taken for every candidate not known to exist
NeedsDbCheckAlsoNew(as, res) ==
    SelectSeq(Positions(as), LAMBDA i : res[as[i].urlHash] # "exists")
NeedsDbCheck(as, res) ==
    SelectSeq(Positions(as), LAMBDA i : res[as[i].urlHash] = "none")

----------------------------------------------------------------------------
(* Feeds and workers of the pipeline model *)

MaxJobs == 3
MaxFaults == 1

\* two fetch workers of the pool (the worker runs with concurrency 5)
Workers == {1, 2}

ItemA == RawItem(LinkA, Title5, Lede30, NoText, Today)
ItemB == RawItem(LinkB, TitleMarkup, NoText, LedeEntities, AbsentDate)
ItemShort == RawItem(LinkB, Title4, Lede30, NoText, Today)

\* the feeds a fetch can return
Feeds == <<(<<ItemA>>), <<ItemShort, ItemB, ItemA>> >>

\* what fetchFeed hands on (feed.items.map(this.normalizeItem)) and what
\* normalizeItems makes of it, for each feed
FeedItems == [f \in DOMAIN Feeds |->
                [i \in DOMAIN Feeds[f] |-> FetcherNormalizeItem(Feeds[f][i])]]
FeedArticles == [f \in DOMAIN Feeds |-> normalizeItems(FeedItems[f], "s1", Today).articles]
NoFeed == 0

\* the candidates of worker w's job and those at the given positions
Candidates(w) == job[w].candidates
CandidatesAt(w, positions) == [k \in DOMAIN positions |-> Candidates(w)[positions[k]]]
NewArticles(w) == CandidatesAt(w, job[w].newArticles)

UrlA == cleanUrl(LinkA)
UrlB == cleanUrl(LinkB)
AllHashes == {hashUrl(UrlA), hashUrl(UrlB)}

StoredHashes == {articles[i].urlHash : i \in DOMAIN articles}

HashesOf(as) == {as[i].urlHash : i \in DOMAIN as}

IdleJob ==
    [pc |-> "idle", feed |-> NoFeed, candidates |-> <<>>, newArticles |-> <<>>,
     needsDbCheck |-> <<>>, dbResults |-> {}, idx |-> 1,
     fetched |-> 0, duplicates |-> 0, cacheHits |-> 0, dbChecks |-> 0,
     inserted |-> <<>>, errors |-> 0, error |-> "none",
     storedAtCall |-> {}, markedAtCall |-> {}]

PipelineInit ==
    /\ cache = [h \in AllHashes |-> "none"]
    /\ articles = <<>>
    /\ job = [w \in Workers |-> IdleJob]
    /\ jobsStarted = 0
    /\ faults = 0
    /\ createdCount = [h \in AllHashes |-> 0]
    /\ insertCalls = [h \in AllHashes |-> 0]
    /\ markedStored = {}

\* The worker takes a fetch job from the queue and processRssScan runs up to
\* the call of filterDuplicates (lines 42-80): fetchFeed returns a feed and
\* normalizeItems runs on its items.
FetchFeed(w) ==
    /\ job[w].pc = "idle"
    /\ jobsStarted < MaxJobs
    /\ jobsStarted' = jobsStarted + 1
    /\ \E f \in DOMAIN Feeds :
         job' = [job EXCEPT ![w] = [IdleJob EXCEPT !.pc = "cacheProbe",
                                                   !.fetched = Len(Feeds[f]),
                                                   !.feed = f,
                                                   !.candidates = FeedArticles[f]]]
    /\ UNCHANGED <<notPipeline, cache, articles, faults, history>>

\* The worker takes a fetch job and fetchFeed returns success = false
\* (lines 49-64): the job returns with all counts 0.
FetchFailed(w) ==
    /\ job[w].pc = "idle"
    /\ jobsStarted < MaxJobs
    /\ jobsStarted' = jobsStarted + 1
    /\ job' = [job EXCEPT ![w] = IdleJob]
    /\ UNCHANGED <<notPipeline, cache, articles, faults, history>>

\* filterDuplicates, lines 27-48: the batch cache probe and the first loop.
\* failed: the MGET throws, which batchCheckCache catches.
CacheProbe(w, failed) ==
    LET j == job[w]
        res == batchCheckCache(cache, HashesOf(Candidates(w)), failed)
        dups == CachedDuplicates(Candidates(w), res)
        new == CachedNew(Candidates(w), res)
        rest == NeedsDbCheck(Candidates(w), res)
    IN  /\ j.pc = "cacheProbe"
        /\ failed => (faults < MaxFaults /\ Candidates(w) # <<>>)
        /\ faults' = IF failed THEN faults + 1 ELSE faults
        /\ job' = [job EXCEPT ![w].pc = IF rest = <<>> THEN "insert" ELSE "dbProbe",
                              ![w].idx = 1,
                              ![w].storedAtCall = StoredHashes,
                              ![w].markedAtCall = markedStored,
                              ![w].duplicates = Len(dups),
                              ![w].cacheHits = Len(dups) + Len(new),
                              ![w].newArticles = new,
                              ![w].needsDbCheck = rest]
        /\ UNCHANGED <<notPipeline, cache, articles, jobsStarted, history>>

\* filterDuplicates, lines 51-55: the batch store probe.
DbProbe(w) ==
    LET j == job[w]
    IN  /\ j.pc = "dbProbe"
        /\ job' = [job EXCEPT ![w].pc = "cacheWrite",
                              ![w].idx = 1,
                              ![w].dbChecks = Len(j.needsDbCheck),
                              ![w].dbResults =
                                  batchCheckDatabase(articles,
                                      HashesOf(CandidatesAt(w, j.needsDbCheck)))]
        /\ UNCHANGED <<notPipeline, cache, articles, jobsStarted, faults, history>>

\* The store query throws: batchCheckDatabase rethrows and the job's outer
\* catch is entered.
DbProbeThrows(w) ==
    /\ job[w].pc = "dbProbe"
    /\ faults < MaxFaults
    /\ faults' = faults + 1
    /\ job' = [job EXCEPT ![w].pc = "failed", ![w].error = "store"]
    /\ UNCHANGED <<notPipeline, cache, articles, jobsStarted, history>>

\* filterDuplicates, lines 57-69: one round of the second loop, which
\* classifies one probed candidate and writes its cache mark.
CacheWrite(w, failed) ==
    LET j == job[w]
        article == Candidates(w)[j.needsDbCheck[j.idx]]
        existsInDb == article.urlHash \in j.dbResults
        last == j.idx = Len(j.needsDbCheck)
    IN  /\ j.pc = "cacheWrite"
        /\ failed => faults < MaxFaults
        /\ faults' = IF failed THEN faults + 1 ELSE faults
        /\ cache' = cacheUrlHash(cache, article.urlHash, existsInDb, failed)
        /\ job' = [job EXCEPT
                     ![w].pc = IF last THEN "insert" ELSE "cacheWrite",
                     ![w].idx = IF last THEN 1 ELSE j.idx + 1,
                     ![w].duplicates = IF existsInDb THEN @ + 1 ELSE @,
                     ![w].newArticles = IF existsInDb THEN @
                                        ELSE Append(@, j.needsDbCheck[j.idx])]
        /\ UNCHANGED <<notPipeline, articles, jobsStarted, history>>

\* Step 4, lines 98-128: one round of the insert loop, the insert executed
\* by the store.
InsertArticle(w) ==
    LET j == job[w]
        article == NewArticles(w)[j.idx]
        result == ArticleCreate(articles, article)
        h == hashUrl(article.url)
        last == j.idx = Len(j.newArticles)
    IN  /\ j.pc = "insert"
        /\ j.newArticles # <<>>
        /\ articles' = result.rows
        /\ insertCalls' = [insertCalls EXCEPT ![h] = @ + 1]
        /\ createdCount' = [createdCount EXCEPT ![h] = IF result.created THEN @ + 1 ELSE @]
        /\ job' = [job EXCEPT
                     ![w].pc = IF last THEN "markStored" ELSE "insert",
                     ![w].idx = IF last THEN 1 ELSE j.idx + 1,
                     ![w].inserted = IF result.created
                                     THEN Append(@, Len(result.rows)) ELSE @]
        /\ UNCHANGED <<notPipeline, cache, jobsStarted, faults, markedStored>>

\* Lines 129-135: the insert throws an error that is not a duplicate-key
\* error; it is recorded and the loop goes on.
InsertThrows(w) ==
    LET j == job[w]
        last == j.idx = Len(j.newArticles)
    IN  /\ j.pc = "insert"
        /\ j.newArticles # <<>>
        /\ faults < MaxFaults
        /\ faults' = faults + 1
        /\ job' = [job EXCEPT
                     ![w].pc = IF last THEN "markStored" ELSE "insert",
                     ![w].idx = IF last THEN 1 ELSE j.idx + 1,
                     ![w].errors = @ + 1]
        /\ UNCHANGED <<notPipeline, cache, articles, jobsStarted, history>>

\* No candidate is new: the insert loop has nothing to do.
InsertNone(w) ==
    /\ job[w].pc = "insert"
    /\ job[w].newArticles = <<>>
    /\ job' = [job EXCEPT ![w].pc = "markStored"]
    /\ UNCHANGED <<notPipeline, cache, articles, jobsStarted, faults, history>>

Urls(as) == [i \in DOMAIN as |-> as[i].url]

\* Lines 141-143: markBatchAsStored on every candidate classified new.
\* failed: the pipelined commands fail and EXEC resolves with their errors.
MarkStored(w, failed) ==
    LET j == job[w]
    IN  /\ j.pc = "markStored"
        /\ failed => (faults < MaxFaults /\ j.newArticles # <<>>)
        /\ faults' = IF failed THEN faults + 1 ELSE faults
        /\ cache' = IF failed THEN cache ELSE markBatchAsStored(cache, Urls(NewArticles(w)))
        /\ markedStored' =
               IF failed THEN markedStored
               ELSE markedStored \cup (HashesOf(NewArticles(w)) \cap StoredHashes)
        /\ job' = [job EXCEPT ![w].pc = "finish"]
        /\ UNCHANGED <<notPipeline, articles, jobsStarted, createdCount, insertCalls>>

\* EXEC of the pipeline rejects: markBatchAsStored has no catch, so the
\* error reaches the job's outer catch.
MarkStoredThrows(w) ==
    /\ job[w].pc = "markStored"
    /\ job[w].newArticles # <<>>
    /\ faults < MaxFaults
    /\ faults' = faults + 1
    /\ job' = [job EXCEPT ![w].pc = "failed", ![w].error = "cache"]
    /\ UNCHANGED <<notPipeline, cache, articles, jobsStarted, history>>

\* Lines 145-179: the source and the scan log are updated and the job
\* returns its counts.
Finish(w) ==
    /\ job[w].pc = "finish"
    /\ job' = [job EXCEPT ![w] = IdleJob]
    /\ UNCHANGED <<notPipeline, cache, articles, jobsStarted, faults, history>>

\* Lines 180-187: the outer catch records the error and rethrows; the job
\* has failed.
JobThrows(w) ==
    /\ job[w].pc = "failed"
    /\ job' = [job EXCEPT ![w] = IdleJob]
    /\ UNCHANGED <<notPipeline, cache, articles, jobsStarted, faults, history>>
----------------------------------------------------------------------------
(* RateLimiter *)

MaxTokens == 2      \* options.tokensPerInterval
Interval == 4       \* options.interval, in milliseconds
NumCallers == 4
MaxTime == 6
StartTime == 1

Callers == 1..NumCallers
NoTime == 0

\* refillTokens at time t: Math.floor((elapsed / interval) * maxTokens)
\* tokens are added, up to maxTokens, and lastRefill moves only when at
\* least one token is added
refillTokens(l, t) ==
    LET elapsed == t - l.lastRefill
        tokensToAdd == (elapsed * MaxTokens) \div Interval
    IN  IF tokensToAdd > 0
        THEN [tokens |-> Min(MaxTokens, l.tokens + tokensToAdd), lastRefill |-> t]
        ELSE l

\* this.tokens--
takeToken(l) == [l EXCEPT !.tokens = @ - 1]

\* waitForToken, lines 39-41: interval / maxTokens milliseconds; a timer
\* does not fire before its delay has passed, so on the millisecond clock
\* of the model the delay is rounded up
WaitTime == (Interval + MaxTokens - 1) \div MaxTokens

IdleWaiter == [pc |-> "idle", op |-> "none", issuedAt |-> NoTime, wakeAt |-> NoTime]

LimiterInit ==
    /\ now = StartTime
    /\ limiter = [tokens |-> MaxTokens, lastRefill |-> StartTime]
    /\ waiter = [c \in Callers |-> IdleWaiter]
    /\ resolveLog = <<>>

notLimiter == <<normVars, pipeVars, retryVars, breakerVars, scanVars, analysisVars>>

\* Time passes.
Tick ==
    /\ now < MaxTime
    /\ now' = now + 1
    /\ UNCHANGED <<normVars, pipeVars, limiterVars, retryVars, breakerVars, scanVars, analysisVars>>

Resolved(c, issuedAt) == [caller |-> c, at |-> now, issuedAt |-> issuedAt]

\* waitForToken, lines 31-36: a token is there and the call resolves at once.
WaitForTokenNow(c) ==
    LET l == refillTokens(limiter, now)
    IN  /\ waiter[c].pc = "idle"
        /\ l.tokens > 0
        /\ limiter' = takeToken(l)
        /\ waiter' = [waiter EXCEPT ![c] = [pc |-> "done", op |-> "wait",
                                            issuedAt |-> now, wakeAt |-> NoTime]]
        /\ resolveLog' = Append(resolveLog, Resolved(c, now))
        /\ UNCHANGED <<now, notLimiter>>

\* waitForToken, lines 38-43: no token is there and the call sleeps.
WaitForTokenSleep(c) ==
    LET l == refillTokens(limiter, now)
    IN  /\ waiter[c].pc = "idle"
        /\ ~(l.tokens > 0)
        /\ limiter' = l
        /\ waiter' = [waiter EXCEPT ![c] = [pc |-> "sleeping", op |-> "wait",
                                            issuedAt |-> now,
                                            wakeAt |-> now + WaitTime]]
        /\ UNCHANGED <<now, resolveLog, notLimiter>>

\* waitForToken, lines 44-45: the timer has fired; the call refills, takes
\* a token and resolves.
WaitForTokenWake(c) ==
    /\ waiter[c].pc = "sleeping"
    /\ now >= waiter[c].wakeAt
    /\ limiter' = takeToken(refillTokens(limiter, now))
    /\ waiter' = [waiter EXCEPT ![c].pc = "done"]
    /\ resolveLog' = Append(resolveLog, Resolved(c, waiter[c].issuedAt))
    /\ UNCHANGED <<now, notLimiter>>

\* tryConsume
TryConsume(c) ==
    LET l == refillTokens(limiter, now)
    IN  /\ waiter[c].pc = "idle"
        /\ limiter' = IF l.tokens > 0 THEN takeToken(l) ELSE l
        /\ waiter' = [waiter EXCEPT ![c] = [pc |-> "done", op |-> "try",
                                            issuedAt |-> now, wakeAt |-> NoTime]]
        /\ UNCHANGED <<now, resolveLog, notLimiter>>

LimiterNext ==
    \/ Tick
    \/ \E c \in Callers :
         \/ WaitForTokenNow(c)
         \/ WaitForTokenSleep(c)
         \/ WaitForTokenWake(c)
         \/ TryConsume(c)
----------------------------------------------------------------------------
(* withRetry *)

UpperCase == <<"A", "B", "C", "D", "E", "F", "G", "H", "I", "J", "K", "L", "M", "N", "O", "P", "Q", "R", "S", "T", "U", "V", "W", "X", "Y", "Z">>
LowerCase == <<"a", "b", "c", "d", "e", "f", "g", "h", "i", "j", "k", "l", "m", "n", "o", "p", "q", "r", "s", "t", "u", "v", "w", "x", "y", "z">>

LowerChar(c) ==
    IF \E i \in DOMAIN UpperCase : UpperCase[i] = c
    THEN LowerCase[CHOOSE i \in DOMAIN UpperCase : UpperCase[i] = c]
    ELSE c

\* String.prototype.toLowerCase
ToLowerCase(s) == [i \in DOMAIN s |-> LowerChar(s[i])]

defaultPatterns ==
    <<<<"t", "i", "m", "e", "o", "u", "t">>, <<"e", "c", "o", "n", "n", "r", "e", "s", "e", "t">>, <<"e", "c", "o", "n", "n", "r", "e", "f", "u", "s", "e", "d">>, <<"e", "t", "i", "m", "e", "d", "o", "u", "t">>,
      <<"s", "o", "c", "k", "e", "t", " ", "h", "a", "n", "g", " ", "u", "p">>, <<"n", "e", "t", "w", "o", "r", "k">>, <<"r", "a", "t", "e", "_", "l", "i", "m", "i", "t">>, <<"r", "a", "t", "e", " ", "l", "i", "m", "i", "t">>,
      <<"4", "2", "9">>, <<"5", "0", "3">>, <<"5", "0", "2">>, <<"o", "v", "e", "r", "l", "o", "a", "d", "e", "d">>, <<"t", "e", "m", "p", "o", "r", "a", "r", "i", "l", "y", " ", "u", "n", "a", "v", "a", "i", "l", "a", "b", "l", "e">>>>

\* the retryableErrors option that fetchFeed passes
fetchFeedPatterns ==
    <<<<"E", "C", "O", "N", "N", "R", "E", "S", "E", "T">>, <<"E", "T", "I", "M", "E", "D", "O", "U", "T">>, <<"E", "N", "O", "T", "F", "O", "U", "N", "D">>, <<"s", "o", "c", "k", "e", "t", " ", "h", "a", "n", "g", " ", "u", "p">>, <<"5", "0", "3">>, <<"5", "0", "2">>>>

\* an absent retryableErrors option
NoPatterns == <<>>

isRetryableError(error, retryablePatterns) ==
    LET message == ToLowerCase(error.message)
        name == ToLowerCase(error.name)
        patterns == IF retryablePatterns # NoPatterns
                    THEN retryablePatterns ELSE defaultPatterns
    IN  \E i \in DOMAIN patterns :
            \/ Includes(message, ToLowerCase(patterns[i]))
            \/ Includes(name, ToLowerCase(patterns[i]))

\* throwsNow with the attempt limit off by one
throwsNowOffByOne(error, attempt, opts) ==
    ~isRetryableError(error, opts.retryableErrors) \/ attempt + 1 = opts.maxAttempts

\* line 36: the error is thrown to the caller instead of being retried
throwsNow(error, attempt, opts) ==
    ~isRetryableError(error, opts.retryableErrors) \/ attempt = opts.maxAttempts

\* line 57
nextDelay(delay, opts) == Min(delay * opts.backoffMultiplier, opts.maxDelayMs)

MaxAttemptsBound == 3

\* Outcomes of the operation. transient tells, for the default patterns and
\* for those of fetchFeed, whether the failure is one the policy retries.
Success == [ok |-> TRUE, name |-> <<>>, message |-> <<"f", "e", "e", "d">>, transient |-> {}]
TimedOut ==
    [ok |-> FALSE, name |-> <<"E", "r", "r", "o", "r">>, message |-> <<"c", "o", "n", "n", "e", "c", "t", " ", "E", "T", "I", "M", "E", "D", "O", "U", "T">>,
     transient |-> {defaultPatterns, fetchFeedPatterns}]
Unavailable ==
    [ok |-> FALSE, name |-> <<"E", "r", "r", "o", "r">>, message |-> <<"S", "t", "a", "t", "u", "s", " ", "c", "o", "d", "e", " ", "5", "0", "3">>,
     transient |-> {defaultPatterns, fetchFeedPatterns}]
NotFound ==
    [ok |-> FALSE, name |-> <<"E", "r", "r", "o", "r">>, message |-> <<"S", "t", "a", "t", "u", "s", " ", "c", "o", "d", "e", " ", "4", "0", "4">>,
     transient |-> {}]
Aborted ==
    [ok |-> FALSE, name |-> <<"T", "i", "m", "e", "o", "u", "t", "E", "r", "r", "o", "r">>, message |-> <<"a", "b", "o", "r", "t", "e", "d">>,
     transient |-> {defaultPatterns}]

Failures == {TimedOut, Unavailable, NotFound, Aborted}

RetryOptions ==
    [maxAttempts : 1..MaxAttemptsBound,
     initialDelayMs : {1, 4},
     maxDelayMs : {3},
     backoffMultiplier : {2},
     retryableErrors : {NoPatterns, fetchFeedPatterns}]

\* withRetry is entered: attempt 1 is about to call the operation
RetryStart(opts) ==
    [pc |-> "call", opts |-> opts, attempt |-> 1, delay |-> opts.initialDelayMs,
     log |-> <<>>, result |-> Success, sleeps |-> <<>>, onRetry |-> <<>>]

\* no fetchFeed call has returned
NoFetchResult == [pc |-> "none", success |-> FALSE, itemCount |-> 0, error |-> <<>>]

RetryInit ==
    /\ retry \in {RetryStart(o) : o \in RetryOptions}
    /\ fetchResult = NoFetchResult
RetryRest ==
    /\ retry = RetryStart([maxAttempts |-> 1, initialDelayMs |-> 1, maxDelayMs |-> 3,
                           backoffMultiplier |-> 2, retryableErrors |-> NoPatterns])
    /\ fetchResult = NoFetchResult

notRetry == <<normVars, pipeVars, now, limiterVars, breakerVars, scanVars, analysisVars>>

\* line 29: the operation resolves and withRetry returns its value.
RetrySucceeds ==
    /\ retry.pc = "call"
    /\ retry' = [retry EXCEPT !.pc = "returned", !.log = Append(@, Success),
                              !.result = Success]
    /\ UNCHANGED <<fetchResult, notRetry>>

\* lines 30-51: the operation rejects with error; it is thrown on, or
\* onRetry is called and the backoff sleep starts.
RetryFails(error) ==
    /\ retry.pc = "call"
    /\ IF throwsNow(error, retry.attempt, retry.opts)
       THEN retry' = [retry EXCEPT !.pc = "thrown", !.log = Append(@, error),
                                   !.result = error]
       ELSE retry' = [retry EXCEPT !.pc = "sleep", !.log = Append(@, error),
                                   !.onRetry = Append(@, [attempt |-> retry.attempt,
                                                          delay |-> retry.delay])]
    /\ UNCHANGED <<fetchResult, notRetry>>

\* lines 54-57 and 27: the sleep ends, the delay grows and the next attempt
\* starts; with no attempt left the loop ends and line 61 throws lastError.
RetrySleep ==
    /\ retry.pc = "sleep"
    /\ retry' = [retry EXCEPT
                   !.pc = IF retry.attempt + 1 <= retry.opts.maxAttempts
                          THEN "call" ELSE "thrown",
                   !.result = IF retry.attempt + 1 <= retry.opts.maxAttempts
                              THEN @ ELSE retry.log[Len(retry.log)],
                   !.sleeps = Append(@, retry.delay),
                   !.delay = nextDelay(retry.delay, retry.opts),
                   !.attempt = @ + 1]
    /\ UNCHANGED <<fetchResult, notRetry>>

\* fetchFeed with a catch that hands on the errors withRetry does not retry
fetchFeedRethrowing(r) ==
    IF r.pc = "returned"
    THEN [pc |-> "result", success |-> TRUE, itemCount |-> Len(r.result.message),
          error |-> <<>>]
    ELSE IF isRetryableError(r.result, r.opts.retryableErrors)
    THEN [pc |-> "result", success |-> FALSE, itemCount |-> 0,
          error |-> r.result.message]
    ELSE [pc |-> "threw", success |-> FALSE, itemCount |-> 0, error |-> r.result.message]

\* fetchFeed, lines 84-138: the FetchResult made of what withRetry returned
\* (lines 107-118) or threw (lines 119-137). The item count of a feed is
\* the length of the text that stands for it.
fetchFeed(r) ==
    IF r.pc = "returned"
    THEN [pc |-> "result", success |-> TRUE, itemCount |-> Len(r.result.message),
          error |-> <<>>]
    ELSE [pc |-> "result", success |-> FALSE, itemCount |-> 0,
          error |-> r.result.message]

\* fetchFeed returns to processRssScan.
FetchFeedReturns ==
    /\ retry.pc \in {"returned", "thrown"}
    /\ fetchResult.pc = "none"
    /\ fetchResult' = fetchFeed(retry)
    /\ UNCHANGED <<retry, notRetry>>

\* processRssScan, lines 49-66: on success = false the job records the
\* failure and returns; otherwise it goes on to normalise the items.
FetchJobBranch ==
    /\ fetchResult.pc = "result"
    /\ fetchResult' = [fetchResult EXCEPT
                          !.pc = IF ~fetchResult.success THEN "jobReturned"
                                 ELSE "jobContinues"]
    /\ UNCHANGED <<retry, notRetry>>

RetryNext ==
    \/ RetrySucceeds
    \/ \E error \in Failures : RetryFails(error)
    \/ RetrySleep
    \/ FetchFeedReturns
    \/ FetchJobBranch
----------------------------------------------------------------------------
(* CircuitBreaker *)

Threshold == 2          \* constructor argument threshold
ResetTimeoutMs == 2     \* constructor argument resetTimeoutMs
NumBreakerCallers == 2

BreakerCallers == 1..NumBreakerCallers

\* Date.now() - (this.lastFailure || 0) > this.resetTimeoutMs; NoTime is null
cooledDown(b, t) ==
    t - (IF b.lastFailure = NoTime THEN 0 ELSE b.lastFailure) > ResetTimeoutMs

recordFailure(b, t) ==
    [failures |-> b.failures + 1,
     lastFailure |-> t,
     state |-> IF b.failures + 1 >= Threshold THEN "open" ELSE b.state]

reset(b) == [failures |-> 0, lastFailure |-> NoTime, state |-> "closed"]

\* lines 138-140
onSuccess(b) == IF b.state = "half-open" THEN reset(b) ELSE b

IdleCall == [pc |-> "idle", trial |-> FALSE, openAtEntry |-> FALSE,
             cooledAtEntry |-> FALSE, besideTrial |-> FALSE]
NoTrial == [outcome |-> "none", state |-> "closed", failures |-> 0]

\* a half-open trial call of a caller other than c is awaiting its operation
TrialInFlight(c) ==
    \E d \in BreakerCallers \ {c} : call[d].pc = "running" /\ call[d].trial

\* history of the operations' outcomes: run is the number of failures since
\* the last success, atOpen the value of run when the breaker last opened
\* (NoStreak before it ever did), afterSuccess the failure count left by the
\* last success that found the breaker closed
NoStreak == 0 - 1
StreakInit == [run |-> 0, atOpen |-> NoStreak, afterSuccess |-> 0]

BreakerInit ==
    /\ breaker = [failures |-> 0, lastFailure |-> NoTime, state |-> "closed"]
    /\ call = [c \in BreakerCallers |-> IdleCall]
    /\ lastTrial = NoTrial
    /\ streak = StreakInit

notBreaker == <<normVars, pipeVars, now, limiterVars, retryVars, scanVars, analysisVars>>

\* execute, lines 127-136: the breaker is not open, or it is open and has
\* cooled down and becomes half-open; the operation is invoked.
ExecuteInvoke(c) ==
    LET open == breaker.state = "open"
    IN  /\ call[c].pc # "running"
        /\ open => cooledDown(breaker, now)
        /\ breaker' = IF open THEN [breaker EXCEPT !.state = "half-open"] ELSE breaker
        /\ call' = [call EXCEPT ![c] = [pc |-> "running", trial |-> open,
                                        openAtEntry |-> open,
                                        cooledAtEntry |-> cooledDown(breaker, now),
                                        besideTrial |-> TrialInFlight(c)]]
        /\ UNCHANGED <<lastTrial, streak, notBreaker>>

\* execute, lines 127-132: the breaker is open and has not cooled down;
\* the call throws 'Circuit breaker is open'.
ExecuteReject(c) ==
    /\ call[c].pc # "running"
    /\ breaker.state = "open"
    /\ ~cooledDown(breaker, now)
    /\ call' = [call EXCEPT ![c] = [pc |-> "rejected", trial |-> FALSE,
                                    openAtEntry |-> TRUE, cooledAtEntry |-> FALSE,
                                    besideTrial |-> TrialInFlight(c)]]
    /\ UNCHANGED <<breaker, lastTrial, streak, notBreaker>>

\* execute, lines 136-142: the operation resolved.
OperationSucceeds(c) ==
    /\ call[c].pc = "running"
    /\ breaker' = onSuccess(breaker)
    /\ call' = [call EXCEPT ![c].pc = "ok"]
    /\ lastTrial' = IF call[c].trial
                    THEN [outcome |-> "ok", state |-> breaker'.state,
                          failures |-> breaker'.failures]
                    ELSE lastTrial
    /\ streak' = [streak EXCEPT !.run = 0,
                                !.afterSuccess = IF breaker.state = "closed"
                                                 THEN breaker'.failures ELSE @]
    /\ UNCHANGED notBreaker

\* execute, lines 143-146: the operation rejected.
OperationFails(c) ==
    /\ call[c].pc = "running"
    /\ breaker' = recordFailure(breaker, now)
    /\ call' = [call EXCEPT ![c].pc = "failed"]
    /\ lastTrial' = IF call[c].trial
                    THEN [outcome |-> "fail", state |-> breaker'.state,
                          failures |-> breaker'.failures]
                    ELSE lastTrial
    /\ streak' = [streak EXCEPT !.run = @ + 1,
                                !.atOpen = IF breaker.state # "open" /\ breaker'.state = "open"
                                           THEN streak.run + 1 ELSE @]
    /\ UNCHANGED notBreaker

BreakerNext ==
    \/ Tick
    \/ \E c \in BreakerCallers :
         \/ ExecuteInvoke(c)
         \/ ExecuteReject(c)
         \/ OperationSucceeds(c)
         \/ OperationFails(c)

----------------------------------------------------------------------------
(* Scan orchestration, fetch queue, sources and scan logs *)

FetchSlots == 1               \* fetch jobs processed at a time (the code: 5)
Attempts == 3                 \* defaultJobOptions.attempts of the rss-scan queue
OrchestratorConcurrency == 1  \* concurrency of the scan-orchestrator worker

\* the failures injected in one behaviour: enough to use up the attempts of
\* one fetch job
MaxFailures == Attempts

\* two sources and two scan requests
SourceIds == {1, 2}
ScanIds == {1, 2}
JobIds == ScanIds \X SourceIds
NoSource == 0
NoLog == 0

\* the fields of a sources row that fetch jobs write; source 1 has never
\* been fetched and carries an error, the others were fetched long ago
SourcesInit ==
    [s \in SourceIds |->
        IF s = 1 THEN [errorCount |-> 1, lastError |-> "fetch", lastFetched |-> "never"]
        ELSE [errorCount |-> 0, lastError |-> "none", lastFetched |-> "old"]]

\* UPDATE sources SET last_fetched_at = NOW(), error_count = 0, last_error = NULL
updateLastFetched(src, id) ==
    [src EXCEPT ![id] = [errorCount |-> 0, lastError |-> "none", lastFetched |-> "recent"]]

\* updateError with every row of the table in its WHERE clause
updateErrorEverySource(src, id, error) ==
    [s \in DOMAIN src |-> [src[s] EXCEPT !.lastError = error, !.errorCount = @ + 1]]

\* UPDATE sources SET last_error = $1, error_count = error_count + 1 WHERE id = $2
updateError(src, id, error) ==
    [src EXCEPT ![id].lastError = error, ![id].errorCount = @ + 1]

\* SELECT * FROM sources WHERE type = 'rss' AND is_active = true: every
\* source of the model is an active RSS source
findActiveRssSources(src) == DOMAIN src

\* the due sources of runIncrementalScan: never fetched, or fetched longer
\* ago than their fetch interval
dueSources(src) == {s \in DOMAIN src : src[s].lastFetched # "recent"}

\* the rows of a query result, in ascending id order
RECURSIVE Rows(_)
Rows(S) ==
    IF S = {} THEN <<>>
    ELSE LET m == CHOOSE x \in S : \A y \in S : x <= y
         IN  <<m>> \o Rows(S \ {m})

\* scan_logs of a source: the status of each of its logs, by id
\* create with a row of the source reused when there is one
scanCreateReusingRow(logs, s) ==
    IF logs[s] = <<>> THEN [logs EXCEPT ![s] = <<"running">>]
    ELSE [logs EXCEPT ![s][Len(logs[s])] = "running"]

\* INSERT INTO scan_logs (source_id, scan_type, status) VALUES ($1, $2, 'running')
scanCreate(logs, s) == [logs EXCEPT ![s] = Append(@, "running")]

\* UPDATE scan_logs SET status = $1, completed_at = NOW() WHERE id = $2
scanComplete(logs, s, id, status) == [logs EXCEPT ![s][id] = status]

\* UPDATE scan_logs SET status = 'failed', ... WHERE id = $3
scanFail(logs, s, id) == [logs EXCEPT ![s][id] = "failed"]

NoScan ==
    [state |-> "none", type |-> "none", sourceId |-> NoSource, manualLog |-> "none",
     selected |-> {}, pending |-> <<>>, enqueues |-> [s \in SourceIds |-> 0],
     jobsQueued |-> 0, errors |-> 0, sourcesProcessed |-> 0, failedBy |-> "none"]

NoJob == [state |-> "none", attemptsMade |-> 0, pc |-> "none", log |-> NoLog]

ScanInit ==
    /\ sources = SourcesInit
    /\ scanLogs = [s \in SourceIds |-> <<>>]
    /\ scans = [o \in ScanIds |-> NoScan]
    /\ fetchJobs = [j \in JobIds |-> NoJob]
    /\ failures = 0

notScan == <<normVars, pipeVars, now, limiterVars, retryVars, breakerVars, analysisVars>>

\* the scan requests of the model: the scheduler's full and incremental
\* scans, POST /trigger with type full and POST /trigger/1
Requests ==
    {<<"full", NoSource, FALSE>>, <<"incremental", NoSource, FALSE>>,
     <<"incremental", 1, TRUE>>}

\* addScanJob, called by the scheduler (full or incremental) or by the
\* routes POST /trigger and POST /trigger/:sourceId, which also create a
\* scan log of their own with createManualScan.
AddScanJob(type, sourceId, manual) ==
    LET o == Cardinality({x \in ScanIds : scans[x].state # "none"}) + 1
    IN  /\ o \in ScanIds
        /\ sourceId # NoSource => (type = "incremental" /\ manual)
        /\ scans' = [scans EXCEPT ![o] =
                        [NoScan EXCEPT !.state = "waiting", !.type = type,
                                       !.sourceId = sourceId,
                                       !.manualLog = IF manual THEN "running" ELSE "none"]]
        /\ UNCHANGED <<sources, scanLogs, fetchJobs, failures, notScan>>

\* the scan-orchestrator worker takes a job only below its concurrency
OrchestratorFreeAlways == TRUE

OrchestratorFree ==
    Cardinality({o \in ScanIds : scans[o].state = "active"}) < OrchestratorConcurrency

\* the sources a scan job selects
Selected(sc) ==
    IF sc.sourceId # NoSource THEN {sc.sourceId}
    ELSE IF sc.type = "full" THEN findActiveRssSources(sources)
    ELSE dueSources(sources)

\* the oldest waiting scan job
NextScan(o) ==
    /\ scans[o].state = "waiting"
    /\ \A p \in ScanIds : p < o => scans[p].state # "waiting"

\* processScanOrchestrator up to the enqueue loop: the worker takes the job
\* and runFullScan or runIncrementalScan selects its sources.
StartScan(o) ==
    /\ NextScan(o)
    /\ OrchestratorFree
    /\ scans' = [scans EXCEPT ![o].state = "active",
                              ![o].selected = Selected(scans[o]),
                              ![o].pending = Rows(Selected(scans[o]))]
    /\ UNCHANGED <<sources, scanLogs, fetchJobs, failures, notScan>>

\* the source selection query throws: the orchestration job fails
\* (attempts: 1).
SelectThrows(o) ==
    /\ NextScan(o)
    /\ OrchestratorFree
    /\ failures < MaxFailures
    /\ failures' = failures + 1
    /\ scans' = [scans EXCEPT ![o].state = "failed", ![o].failedBy = "select"]
    /\ UNCHANGED <<sources, scanLogs, fetchJobs, notScan>>

\* one round of the enqueue loop: queues.rssScan.add succeeds.
EnqueueOk(o) ==
    LET sc == scans[o]
        s == Head(sc.pending)
    IN  /\ sc.state = "active"
        /\ sc.pending # <<>>
        /\ fetchJobs' = [fetchJobs EXCEPT ![<<o, s>>] = [NoJob EXCEPT !.state = "waiting"]]
        /\ scans' = [scans EXCEPT ![o].pending = Tail(@),
                                  ![o].enqueues[s] = @ + 1,
                                  ![o].jobsQueued = @ + 1]
        /\ UNCHANGED <<sources, scanLogs, failures, notScan>>

\* queues.rssScan.add throws: inside the loops the error is recorded and the
\* loop goes on; on the path of a specific source there is no catch and the
\* orchestration job fails.
EnqueueFails(o) ==
    LET sc == scans[o]
        s == Head(sc.pending)
    IN  /\ sc.state = "active"
        /\ sc.pending # <<>>
        /\ failures < MaxFailures
        /\ failures' = failures + 1
        /\ scans' = IF sc.sourceId # NoSource
                    THEN [scans EXCEPT ![o].pending = <<>>,
                                       ![o].enqueues[s] = @ + 1,
                                       ![o].state = "failed",
                                       ![o].failedBy = "enqueue"]
                    ELSE [scans EXCEPT ![o].pending = Tail(@),
                                       ![o].enqueues[s] = @ + 1,
                                       ![o].errors = @ + 1]
        /\ UNCHANGED <<sources, scanLogs, fetchJobs, notScan>>

\* the loop is over: the run returns its summary.
ScanReturn(o) ==
    /\ scans[o].state = "active"
    /\ scans[o].pending = <<>>
    /\ scans' = [scans EXCEPT ![o].state = "completed",
                              ![o].sourcesProcessed = Cardinality(scans[o].selected)]
    /\ UNCHANGED <<sources, scanLogs, fetchJobs, failures, notScan>>

\* the rss-scan worker takes a job only below its concurrency
FetchWorkerFree ==
    Cardinality({j \in JobIds : fetchJobs[j].state = "active"}) < FetchSlots

\* the queue's handling of a job whose processor threw: the attempt is
\* counted and the job waits for its next attempt, or is failed when the
\* attempts are used up
jobFailedAttempt(fj) ==
    [fj EXCEPT !.attemptsMade = @ + 1,
               !.pc = "none",
               !.state = IF fj.attemptsMade + 1 < Attempts THEN "waiting" ELSE "failed"]

\* processRssScan, lines 44-64: the worker takes a waiting fetch job (a first
\* attempt or a retry), the attempt creates its scan log, and fetchFeed
\* returns success = false; the source's error and the failed scan log are
\* written and the job returns.
RssFetchFailed(j) ==
    LET s == j[2]
        created == scanCreate(scanLogs, s)
    IN  /\ fetchJobs[j].state = "waiting"
        /\ FetchWorkerFree
        /\ failures < MaxFailures
        /\ failures' = failures + 1
        /\ sources' = updateError(sources, s, "fetch")
        /\ scanLogs' = scanFail(created, s, Len(created[s]))
        /\ fetchJobs' = [fetchJobs EXCEPT ![j].state = "completed",
                                          ![j].log = Len(created[s])]
        /\ UNCHANGED <<scans, notScan>>

\* lines 44-66: the worker takes a waiting fetch job, the attempt creates
\* its scan log, and fetchFeed returns a feed; normalisation, deduplication
\* and the inserts follow (lines 70-143).
RssFetchOk(j) ==
    LET s == j[2]
    IN  /\ fetchJobs[j].state = "waiting"
        /\ FetchWorkerFree
        /\ scanLogs' = scanCreate(scanLogs, s)
        /\ fetchJobs' = [fetchJobs EXCEPT ![j].state = "active",
                                          ![j].pc = "stages",
                                          ![j].log = Len(scanLogs'[s])]
        /\ UNCHANGED <<sources, scans, failures, notScan>>

\* lines 146-179: the stages are through; updateLastFetched is called, the
\* scan log is completed, as partial when item errors were recorded, and the
\* job returns.
RssScanComplete(j, itemErrors) ==
    LET s == j[2]
    IN  /\ fetchJobs[j].pc = "stages"
        /\ sources' = updateLastFetched(sources, s)
        /\ scanLogs' = scanComplete(scanLogs, s, fetchJobs[j].log,
                                    IF itemErrors THEN "partial" ELSE "completed")
        /\ fetchJobs' = [fetchJobs EXCEPT ![j].state = "completed", ![j].pc = "none"]
        /\ UNCHANGED <<scans, failures, notScan>>

\* lines 180-187: a call after the fetch throws; the outer catch calls
\* updateError and rethrows, and the queue counts the failed attempt.
\* late: the call that throws is a scan log update of lines 149-155, after
\* updateLastFetched; otherwise it is one before line 146 (the store probe,
\* the topic query, markBatchAsStored).
RssScanThrows(j, late) ==
    LET s == j[2]
        written == IF late THEN updateLastFetched(sources, s) ELSE sources
    IN  /\ fetchJobs[j].pc = "stages"
        /\ failures < MaxFailures
        /\ failures' = failures + 1
        /\ sources' = updateError(written, s, "thrown")
        /\ fetchJobs' = [fetchJobs EXCEPT ![j] = jobFailedAttempt(@)]
        /\ UNCHANGED <<scanLogs, scans, notScan>>

ScanNext ==
    \/ \E r \in Requests : AddScanJob(r[1], r[2], r[3])
    \/ \E o \in ScanIds :
         \/ StartScan(o)
         \/ SelectThrows(o)
         \/ EnqueueOk(o)
         \/ EnqueueFails(o)
         \/ ScanReturn(o)
    \/ \E j \in JobIds :
         \/ RssFetchFailed(j)
         \/ RssFetchOk(j)
         \/ RssScanComplete(j, FALSE)
         \/ RssScanComplete(j, TRUE)
         \/ RssScanThrows(j, FALSE)
         \/ RssScanThrows(j, TRUE)

----------------------------------------------------------------------------
(* Topic matcher *)

\* quickRelevanceCheck, lines 221-224: title, a blank and the lede, in lower
\* case, searched for each keyword in lower case
quickRelevanceCheck(article, keywords) ==
    LET text == ToLowerCase(article.title \o <<" ">> \o article.lede)
    IN  \E k \in DOMAIN keywords :
            Includes(ToLowerCase(text), ToLowerCase(keywords[k]))

\* checkAgainstTopics with a loop that returns at the first matching topic
checkAgainstTopicsFirstMatch(article, topics) ==
    LET matched == SelectSeq(topics, LAMBDA topic :
                                 quickRelevanceCheck(article, topic.keywords))
    IN  IF matched = <<>> THEN <<>> ELSE <<matched[1].id>>

\* checkAgainstTopics, lines 229-242: the ids of the matching topics, in the
\* order of the topics list
checkAgainstTopics(article, topics) ==
    LET matched == SelectSeq(topics, LAMBDA topic :
                                 quickRelevanceCheck(article, topic.keywords))
    IN  [i \in DOMAIN matched |-> matched[i].id]

TopicTax == [id |-> 1, keywords |-> <<(<<"T", "a", "x">>), <<"e", " ", "f">> >>]
TopicNorm == [id |-> 2, keywords |-> <<(<<"n", "o", "r", "m">>)>>]
TopicForm == [id |-> 3, keywords |-> <<(<<"F", "O", "R", "M">>), <<"x", "f">> >>]
AllTopics == {TopicTax, TopicNorm, TopicForm}

\* the lists of distinct topics
TopicLists ==
    {<<>>} \cup {<<a>> : a \in AllTopics}
    \cup {l \in [1..2 -> AllTopics] : l[1] # l[2]}
    \cup {l \in [1..3 -> AllTopics] : \A i, j \in 1..3 : i # j => l[i] # l[j]}

MatchTitles == {<<"t", "a", "x", "e">>, <<"N", "o", "r", "m", "s">>, <<"s", "p", "o", "r", "t", "x">>}
MatchLedes == {<<"f", "o", "r", "m">>, <<"a", " ", "N", "O", "R", "M">>, <<"q", "q">>}
MatchArticles == [title : MatchTitles, lede : MatchLedes]

MatchCalls == [article : MatchArticles, topics : TopicLists, pc : {"call"}, result : {<<>>}]

MatchInit == matcher \in MatchCalls
MatchRest ==
    matcher = [article |-> [title |-> <<"t", "a", "x", "e">>, lede |-> <<"q", "q">>],
               topics |-> <<>>, pc |-> "call", result |-> <<>>]

\* one call of checkAgainstTopics
Match ==
    /\ matcher.pc = "call"
    /\ matcher' = [matcher EXCEPT !.pc = "done",
                                  !.result = checkAgainstTopics(matcher.article,
                                                                matcher.topics)]
    /\ UNCHANGED <<normVars, pipeVars, now, limiterVars, retryVars, breakerVars,
                   scanVars, analysisJobs, articleTopics, postJobs, digestJobs, callVars>>

----------------------------------------------------------------------------
(* The response of the classification service *)

ReasoningMissing == "Resultat manquant"
ReasoningError == "Erreur lors de l'analyse"

\* relevance_score as the service may send it: a number in tenths, in or out of
\* the range 0..1, no value, or a value that is not a number
Number(v) == [type |-> "number", value |-> v]
Undefined == [type |-> "undefined", value |-> 0]
NotANumber == [type |-> "string", value |-> 0]
SentScores == {Number(0), Number(7), Number(15), Undefined, NotANumber}
SentReasonings == {"because", "undefined"}

\* the entries of result.results: objects, or null
UnknownTopicId == 9
NullEntry == [type |-> "null"]
SentEntries ==
    [type : {"object"}, topic_id : {TopicTax.id, TopicNorm.id, UnknownTopicId},
     relevance_score : SentScores, reasoning : SentReasonings] \cup {NullEntry}

MaxEntries == 2
SentResults == UNION {[1..n -> SentEntries] : n \in 0..MaxEntries}

\* Math.max(0, Math.min(1, r.relevance_score || 0)), in tenths: no value gives
\* 0, and a value that is not a number gives NaN
NaN == 99
clampScore(score) ==
    IF score.type = "undefined" THEN 0
    ELSE IF score.type = "string" THEN NaN
    ELSE IF score.value > 10 THEN 10
    ELSE IF score.value < 0 THEN 0
    ELSE score.value

\* lines 231-237: reading a property of null throws
normalizeThrows(results) == \E i \in DOMAIN results : results[i].type = "null"

normalizedResults(results) ==
    [i \in DOMAIN results |->
        [topicId |-> results[i].topic_id,
         relevanceScore |-> clampScore(results[i].relevance_score),
         reasoning |-> IF results[i].reasoning = "undefined" THEN ""
                       ELSE results[i].reasoning]]

\* new Map(normalizedResults.map(r => [r.topicId, r])).get(id): the last
\* entry with the id
resultMapHas(normalized, id) == \E i \in DOMAIN normalized : normalized[i].topicId = id
resultMapGet(normalized, id) ==
    LET last == CHOOSE i \in DOMAIN normalized :
                    /\ normalized[i].topicId = id
                    /\ \A k \in DOMAIN normalized : normalized[k].topicId = id => k <= i
    IN  normalized[last]

\* lines 239-251: one result per requested topic, the missing ones filled in
completeResults(topics, normalized) ==
    [t \in DOMAIN topics |->
        IF resultMapHas(normalized, topics[t].id)
        THEN resultMapGet(normalized, topics[t].id)
        ELSE [topicId |-> topics[t].id, relevanceScore |-> 0, reasoning |-> ReasoningMissing]]

\* lines 193-278 once chatJson has returned result: the try and its catch
resultsOfResponse(topics, results) ==
    IF normalizeThrows(results)
    THEN [t \in DOMAIN topics |->
             [topicId |-> topics[t].id, relevanceScore |-> 0, reasoning |-> ReasoningError]]
    ELSE completeResults(topics, normalizedResults(results))

ResponseTopics == {<<TopicTax, TopicNorm>>, <<TopicNorm, TopicTax>>, <<TopicTax>>}

ResponseCalls == [topics : ResponseTopics, results : SentResults, pc : {"call"}, out : {<<>>}]

ResponseInit == response \in ResponseCalls
ResponseRest ==
    response = [topics |-> <<TopicTax>>, results |-> <<>>, pc |-> "call", out |-> <<>>]

\* analyzeArticleForTopics returns for the response
ResponseReturns ==
    /\ response.pc = "call"
    /\ response' = [response EXCEPT
           !.pc = "done",
           !.out = resultsOfResponse(response.topics, response.results)]
    /\ UNCHANGED <<normVars, pipeVars, now, limiterVars, retryVars, breakerVars,
                   scanVars, analysisJobs, articleTopics, postJobs, digestJobs, matcher, cleanup,
                   selection, stages, batch>>

----------------------------------------------------------------------------
(* The cleanup run *)

ArticleRetentionDays == 90    \* INTERVAL '90 days' of the DELETE FROM articles
ArticleStatuses == {"pending", "analyzing", "relevant", "irrelevant", "error"}
CleanupAges == {ArticleRetentionDays - 1, ArticleRetentionDays, ArticleRetentionDays + 1}
MaxCleanupRows == 3

\* articles rows by status and age in days (NOW() - created_at)
CleanupRows == [status : ArticleStatuses, age : CleanupAges]
CleanupTables == UNION {[1..n -> CleanupRows] : n \in 0..MaxCleanupRows}

\* DELETE FROM articles WHERE status IN ('irrelevant', 'error')
\*   AND created_at < NOW() - INTERVAL '90 days': the rows that stay
deleteOldArticles(rows) ==
    SelectSeq(rows, LAMBDA r :
        ~(r.status \in {"irrelevant", "error"} /\ r.age > ArticleRetentionDays))

\* processScanOrchestrator with type 'cleanup': sourcesProcessed is the
\* number of rows deleted, jobsQueued keeps its initial 0
cleanupResult(rows) ==
    [type |-> "cleanup", sourcesProcessed |-> Len(rows) - Len(deleteOldArticles(rows)),
     jobsQueued |-> 0]

NoCleanupResult == [type |-> "none", sourcesProcessed |-> 0, jobsQueued |-> 0]

CleanupInit ==
    cleanup \in [rows : CleanupTables, pc : {"queued"}, after : {<<>>},
                 result : {NoCleanupResult}]
CleanupRest ==
    cleanup = [rows |-> <<>>, pc |-> "queued", after |-> <<>>, result |-> NoCleanupResult]

\* the orchestrator runs the cleanup job
RunCleanup ==
    /\ cleanup.pc = "queued"
    /\ cleanup' = [cleanup EXCEPT !.pc = "done",
                                  !.after = deleteOldArticles(cleanup.rows),
                                  !.result = cleanupResult(cleanup.rows)]
    /\ UNCHANGED <<normVars, pipeVars, now, limiterVars, retryVars, breakerVars,
                   scanVars, analysisJobs, articleTopics, postJobs, digestJobs, matcher, response,
                   selection, stages, batch>>

----------------------------------------------------------------------------
(* Source selection of the incremental scan *)

BatchLimit == 20          \* LIMIT 20 of the due-sources query
SelectNow == 100          \* NOW() of the query, in minutes
NullTime == 0 - 1         \* last_fetched_at IS NULL
MaxSelectSources == 2     \* the rows of the enumerated sources tables
LargeTableRows == BatchLimit + 2

SelectRows ==
    [type : {"rss", "scraper"}, isActive : BOOLEAN, lastFetchedAt : {NullTime, 30, 40},
     fetchIntervalMinutes : {30, 60}]

\* tables with more due sources than the limit: active RSS sources with
\* distinct last_fetched_at, ascending or descending in the id, the first
\* nulls of them never fetched
LargeTable(nulls, ascending) ==
    [id \in 1..LargeTableRows |->
        [type |-> "rss", isActive |-> TRUE, fetchIntervalMinutes |-> 60,
         lastFetchedAt |-> IF id <= nulls THEN NullTime
                           ELSE IF ascending THEN id ELSE LargeTableRows + 1 - id]]

SelectTables ==
    UNION {[1..n -> SelectRows] : n \in 1..MaxSelectSources}
    \cup {LargeTable(nulls, ascending) : nulls \in {0, 2}, ascending \in BOOLEAN}

\* WHERE type = 'rss' AND is_active = true AND (last_fetched_at IS NULL OR
\* last_fetched_at < NOW() - fetch_interval_minutes)
isDue(row) ==
    /\ row.type = "rss"
    /\ row.isActive
    /\ \/ row.lastFetchedAt = NullTime
       \/ row.lastFetchedAt < SelectNow - row.fetchIntervalMinutes

\* ORDER BY CASE WHEN last_fetched_at IS NULL THEN 0 ELSE 1 END,
\* last_fetched_at ASC. Rows with equal keys come in an order the query
\* does not fix: by ascending or by descending id.
Before(table, a, b, tiesAscending) ==
    LET ka == IF table[a].lastFetchedAt = NullTime THEN 0 ELSE 1
        kb == IF table[b].lastFetchedAt = NullTime THEN 0 ELSE 1
    IN  \/ ka < kb
        \/ ka = kb /\ table[a].lastFetchedAt < table[b].lastFetchedAt
        \/ ka = kb /\ table[a].lastFetchedAt = table[b].lastFetchedAt
              /\ (IF tiesAscending THEN a <= b ELSE b <= a)

RECURSIVE OrderBy(_, _, _)
OrderBy(table, ids, tiesAscending) ==
    IF ids = {} THEN <<>>
    ELSE LET first == CHOOSE a \in ids : \A b \in ids : Before(table, a, b, tiesAscending)
         IN  <<first>> \o OrderBy(table, ids \ {first}, tiesAscending)

\* the rows of the due-sources query
selectDueSources(table, tiesAscending) ==
    LET ordered == OrderBy(table, {id \in DOMAIN table : isDue(table[id])}, tiesAscending)
    IN  SubSeq(ordered, 1, Min(Len(ordered), BatchLimit))

SelectCalls ==
    {[table |-> t, specificSourceId |-> id, pc |-> "queued", enqueued |-> <<>>,
      thrown |-> FALSE] :
        t \in SelectTables, id \in {NoSource} \cup 1..(MaxSelectSources + 1)}

SelectionInit == selection \in SelectCalls
SelectionRest ==
    selection = [table |-> LargeTable(0, TRUE), specificSourceId |-> NoSource,
                 pc |-> "queued", enqueued |-> <<>>, thrown |-> FALSE]

\* runIncrementalScan, lines 133-155: a specific source is looked up by its
\* id and one fetch job is added for it; an unknown id throws.
SelectSpecific ==
    /\ selection.pc = "queued"
    /\ selection.specificSourceId # NoSource
    /\ selection' =
           IF selection.specificSourceId \in DOMAIN selection.table
           THEN [selection EXCEPT !.pc = "done",
                                  !.enqueued = <<selection.specificSourceId>>]
           ELSE [selection EXCEPT !.pc = "done", !.thrown = TRUE]
    /\ UNCHANGED <<normVars, pipeVars, now, limiterVars, retryVars, breakerVars,
                   scanVars, analysisJobs, articleTopics, postJobs, digestJobs, matcher, response,
                   cleanup, stages, batch>>

\* runIncrementalScan, lines 157-210: the due sources are selected and a
\* fetch job is added for each, in the order of the rows.
SelectDue(tiesAscending) ==
    /\ selection.pc = "queued"
    /\ selection.specificSourceId = NoSource
    /\ selection' = [selection EXCEPT
           !.pc = "done",
           !.enqueued = selectDueSources(selection.table, tiesAscending)]
    /\ UNCHANGED <<normVars, pipeVars, now, limiterVars, retryVars, breakerVars,
                   scanVars, analysisJobs, articleTopics, postJobs, digestJobs, matcher, response,
                   cleanup, stages, batch>>

SelectionNext == SelectSpecific \/ SelectDue(TRUE) \/ SelectDue(FALSE)

----------------------------------------------------------------------------
(* The stages of one fetch job *)

MaxStageItems == 2

\* a feed item by what the stages make of it: normalizeItems keeps it,
\* filterDuplicates finds it new, articleRepo.create returns a row, and
\* checkAgainstTopics matches a topic
StageItems == [valid : BOOLEAN, new : BOOLEAN, created : BOOLEAN, matched : BOOLEAN]
StageFeeds == UNION {[1..n -> StageItems] : n \in 0..MaxStageItems}

\* lines 35-40: the counts of the job's result
NoCounts == [fetched |-> 0, normalized |-> 0, newArticles |-> 0, duplicates |-> 0, queued |-> 0]

\* the job of one source, waiting in the queue; rows and logs are the sources
\* and scan_logs tables as the job writes them
StagesInit ==
    stages \in [items : StageFeeds, pc : {"fetch"}, articles : {<<>>}, newArticles : {<<>>},
                idx : {1}, log : {<<>>}, sourceId : SourceIds, rows : {SourcesInit},
                logs : {[s \in SourceIds |-> <<>>]}, scanLog : {NoLog},
                state : {"waiting"}, counts : {NoCounts}, errors : {0}]
StagesRest ==
    stages = [items |-> <<>>, pc |-> "fetch", articles |-> <<>>, newArticles |-> <<>>,
              idx |-> 1, log |-> <<>>, sourceId |-> 1, rows |-> SourcesInit,
              logs |-> [s \in SourceIds |-> <<>>], scanLog |-> NoLog,
              state |-> "waiting", counts |-> NoCounts, errors |-> 0]

Stage(name, position) == [stage |-> name, item |-> position]

notStages ==
    <<normVars, pipeVars, now, limiterVars, retryVars, breakerVars, scanVars,
      analysisJobs, articleTopics, postJobs, digestJobs, matcher, response, cleanup,
      selection, batch>>

\* the failure branch with a scan log that is left running
failedFetchLeavesLog(st, created) ==
    [st EXCEPT !.pc = "done", !.state = "completed", !.errors = 1,
               !.rows = updateError(st.rows, st.sourceId, "fetch"),
               !.logs = created]

\* lines 49-64: the error is pushed, updateError and scanRepo.fail are
\* awaited and the job returns the counts as they stand
failedFetch(st, created) ==
    [st EXCEPT !.pc = "done", !.state = "completed", !.errors = 1,
               !.rows = updateError(st.rows, st.sourceId, "fetch"),
               !.logs = scanFail(created, st.sourceId, Len(created[st.sourceId]))]

\* lines 44-66: the scan log is created and fetchFeed returns; a failed
\* fetch ends the job (lines 49-64), a feed sets the count of fetched items
StageFetch(success) ==
    LET created == scanCreate(stages.logs, stages.sourceId)
        started == [stages EXCEPT !.log = Append(@, Stage("fetch", 0)),
                                  !.state = "active",
                                  !.scanLog = Len(created[stages.sourceId])]
    IN  /\ stages.pc = "fetch"
        /\ stages' = IF success
                      THEN [started EXCEPT !.pc = "normalize", !.logs = created,
                                           !.counts.fetched = Len(stages.items)]
                      ELSE failedFetch(started, created)
        /\ UNCHANGED notStages

\* lines 70-76: normalizeItems
StageNormalize ==
    /\ stages.pc = "normalize"
    /\ stages' = [stages EXCEPT
           !.pc = "dedup",
           !.articles = SelectSeq([i \in DOMAIN stages.items |-> i],
                                  LAMBDA position : stages.items[position].valid),
           !.counts.normalized =
               Len(SelectSeq([i \in DOMAIN stages.items |-> i],
                             LAMBDA position : stages.items[position].valid)),
           !.log = Append(@, Stage("normalize", 0))]
    /\ UNCHANGED notStages

\* lines 81-93: filterDuplicates, then the active topics are loaded
StageDedup ==
    /\ stages.pc = "dedup"
    /\ stages' = [stages EXCEPT
           !.pc = "create",
           !.idx = 1,
           !.newArticles = SelectSeq(stages.articles,
                                     LAMBDA position : stages.items[position].new),
           !.counts.newArticles =
               Len(SelectSeq(stages.articles, LAMBDA position : stages.items[position].new)),
           !.counts.duplicates =
               Len(SelectSeq(stages.articles, LAMBDA position : ~stages.items[position].new)),
           !.log = Append(@, Stage("dedup", 0))]
    /\ UNCHANGED notStages

\* lines 98-109 for the next new article: articleRepo.create; with no row
\* returned the loop goes on to the next article
StageCreate ==
    LET position == stages.newArticles[stages.idx]
    IN  /\ stages.pc = "create"
        /\ stages.idx <= Len(stages.newArticles)
        /\ stages' = [stages EXCEPT
               !.pc = IF stages.items[position].created THEN "match" ELSE "create",
               !.idx = IF stages.items[position].created THEN @ ELSE @ + 1,
               !.log = Append(@, Stage("persist", position))]
        /\ UNCHANGED notStages

\* lines 111-116: checkAgainstTopics for the article just created
StageMatch ==
    LET position == stages.newArticles[stages.idx]
    IN  /\ stages.pc = "match"
        /\ stages' = [stages EXCEPT
               !.pc = IF stages.items[position].matched THEN "enqueue" ELSE "create",
               !.idx = IF stages.items[position].matched THEN @ ELSE @ + 1,
               !.log = Append(@, Stage("match", position))]
        /\ UNCHANGED notStages

\* lines 117-127: addAiAnalysisJob for the matched article
StageEnqueue ==
    LET position == stages.newArticles[stages.idx]
    IN  /\ stages.pc = "enqueue"
        /\ stages' = [stages EXCEPT !.pc = "create", !.idx = @ + 1,
                                    !.counts.queued = @ + 1,
                                    !.log = Append(@, Stage("enqueue-next", position))]
        /\ UNCHANGED notStages

\* lines 138-155: markBatchAsStored, updateLastFetched and the scan log
StageFinish ==
    /\ stages.pc = "create"
    /\ stages.idx > Len(stages.newArticles)
    /\ stages' = [stages EXCEPT
           !.pc = "done", !.state = "completed",
           !.rows = updateLastFetched(stages.rows, stages.sourceId),
           !.logs = scanComplete(stages.logs, stages.sourceId, stages.scanLog, "completed")]
    /\ UNCHANGED notStages

StagesNext ==
    \/ StageFetch(TRUE) \/ StageFetch(FALSE)
    \/ StageNormalize \/ StageDedup \/ StageCreate \/ StageMatch \/ StageEnqueue
    \/ StageFinish

----------------------------------------------------------------------------
(* normalizeItems on a list of feed items *)

MaxBatchItems == 2

\* items that fail none, one or several of the rules
BatchItems ==
    {RawItem(l, t, s, NoText, p) :
        l \in {NoText, LinkA, LinkFtp}, t \in {NoText, Title4, Title5},
        s \in {Lede29, Lede30}, p \in {Today, Today - FreshnessDays - 1}}

BatchLists == UNION {[1..n -> BatchItems] : n \in 0..MaxBatchItems}

NoBatchResult == [articles |-> <<>>, skipped |-> 0, reasons |-> [r \in Reasons |-> 0]]

BatchInit == batch \in [items : BatchLists, pc : {"call"}, result : {NoBatchResult}]
BatchRest == batch = [items |-> <<>>, pc |-> "call", result |-> NoBatchResult]

\* one call of normalizeItems
NormalizeBatch ==
    /\ batch.pc = "call"
    /\ batch' = [batch EXCEPT !.pc = "done",
                              !.result = normalizeItems(batch.items, "s1", Today)]
    /\ UNCHANGED <<normVars, pipeVars, now, limiterVars, retryVars, breakerVars, scanVars,
                   analysisJobs, articleTopics, postJobs, digestJobs, matcher, response,
                   cleanup, selection, stages>>

----------------------------------------------------------------------------
(* Classification jobs and article-topic results *)

AnalysisAttempts == 2     \* defaultJobOptions.attempts of the ai-analysis queue
AnalysisConcurrency == 3  \* concurrency of the ai-analysis worker
MinLedeLength == 50       \* analyzeArticleForTopics: shorter ledes are not sent
RelevantScore == 5        \* updateAnalysis: 0.5, in tenths
PostGenerationThreshold == 6  \* POST_GENERATION_THRESHOLD: 0.6, in tenths
DefaultMinRelevanceScore == 5 \* topics.min_relevance_score DEFAULT 0.50, in tenths
PostAttempts == 2         \* defaultJobOptions.attempts of the post-generation queue

\* the failures injected in one behaviour: enough to use up the attempts of
\* one classification job
MaxAnalysisFailures == AnalysisAttempts

\* two classification jobs are added in one behaviour
AnalysisJobIds == {1, 2}

\* the candidates the fetch jobs of the model store: one that matches the
\* keywords of TopicTax, one that matches no topic, and one with a short
\* lede that matches the keyword of TopicNorm
CandMatch == [url |-> <<"u", "1">>, title |-> <<"t", "a", "x">>, lede |-> Rep("a", 50)]
CandNone == [url |-> <<"u", "2">>, title |-> <<"s", "p", "o", "r", "t">>, lede |-> Rep("a", 50)]
CandShort == [url |-> <<"u", "3">>, title |-> <<"n", "o", "r", "m">>, lede |-> Rep("a", 30)]
AnalysisCandidates == {CandMatch, CandNone, CandShort}
CandidateOf(url) == CHOOSE c \in AnalysisCandidates : c.url = url

\* topicRepo.findActive: the active topics
ActiveTopics == <<TopicTax, TopicNorm>>

\* rssNormalizer.checkAgainstTopics(article, topicsForMatching) for each
\* candidate of the model
MatchedTopicIdsOf == [c \in AnalysisCandidates |-> checkAgainstTopics(c, ActiveTopics)]

\* topicIds.map(findById) with the nulls filtered out
findTopics(topicIds) ==
    LET found == SelectSeq(topicIds, LAMBDA id : \E tp \in AllTopics : tp.id = id)
    IN  [i \in DOMAIN found |-> CHOOSE tp \in AllTopics : tp.id = found[i]]

\* processAiAnalysis, lines 28-39
topicsToAnalyze(topicIds) ==
    IF Len(topicIds) > 0 THEN findTopics(topicIds) ELSE ActiveTopics

\* analyzeArticleForTopics: scores in tenths. A short lede gives 0.1 for
\* every topic without a call of the service; a failed call (the service
\* throws or its response cannot be used) is caught and gives 0 for every
\* topic; otherwise every topic has the score the service gave.
analyzeArticleForTopics(article, topics, outcome) ==
    IF Len(article.lede) < MinLedeLength
    THEN [i \in DOMAIN topics |-> [topicId |-> topics[i].id, relevanceScore |-> 1]]
    ELSE IF outcome = "fails"
    THEN [i \in DOMAIN topics |-> [topicId |-> topics[i].id, relevanceScore |-> 0]]
    ELSE [i \in DOMAIN topics |->
              [topicId |-> topics[i].id,
               relevanceScore |-> IF outcome = "high" THEN 8
                                  ELSE IF outcome = "mid" THEN 5 ELSE 2]]

\* the service is called
ServiceCalled(article, topics) ==
    Len(topics) > 0 /\ Len(article.lede) >= MinLedeLength

\* one statement of saveAnalysisResults with no unique constraint on
\* (article_id, topic_id): every save adds a row
saveAnalysisResultPlainInsert(rows, articleId, result) ==
    Append(rows, [articleId |-> articleId, topicId |-> result.topicId,
                  relevanceScore |-> result.relevanceScore, saves |-> 1])

\* one statement of saveAnalysisResults: INSERT ... ON CONFLICT (article_id,
\* topic_id) DO UPDATE. saves counts the statements that wrote the row.
saveAnalysisResult(rows, articleId, result) ==
    IF \E i \in DOMAIN rows :
           rows[i].articleId = articleId /\ rows[i].topicId = result.topicId
    THEN [i \in DOMAIN rows |->
              IF rows[i].articleId = articleId /\ rows[i].topicId = result.topicId
              THEN [rows[i] EXCEPT !.relevanceScore = result.relevanceScore,
                                   !.saves = @ + 1]
              ELSE rows[i]]
    ELSE Append(rows, [articleId |-> articleId, topicId |-> result.topicId,
                       relevanceScore |-> result.relevanceScore, saves |-> 1])

\* topicResults.reduce of lines 96-100: the first result with the best score
RECURSIVE bestResult(_)
bestResult(results) ==
    IF Len(results) = 1 THEN results[1]
    ELSE LET best == bestResult(SubSeq(results, 1, Len(results) - 1))
             current == results[Len(results)]
         IN  IF current.relevanceScore > best.relevanceScore THEN current ELSE best

\* topicResults.filter(r => r.relevanceScore >= POST_GENERATION_THRESHOLD)
highRelevanceResults(results) ==
    SelectSeq(results, LAMBDA r : r.relevanceScore >= PostGenerationThreshold)

\* the activation threshold of a topic: every topic of the model has the
\* default of the column
minRelevanceScore(topicId) == DefaultMinRelevanceScore

\* queues.postGeneration.add('generate-posts', data, {priority: 2})
addPostGenerationJob(queue, articleId) ==
    Append(queue, [articleId |-> articleId, state |-> "waiting", attemptsMade |-> 0])

\* articleRepo.update(id, {status})
updateStatus(rows, id, status) ==
    [i \in DOMAIN rows |-> IF rows[i].id = id THEN [rows[i] EXCEPT !.status = status]
                           ELSE rows[i]]

\* updateAnalysis: the status follows from the score
updateAnalysis(rows, id, relevanceScore) ==
    updateStatus(rows, id, IF relevanceScore >= RelevantScore THEN "relevant"
                           ELSE "irrelevant")

\* UPDATE articles SET status = 'pending', analyzed_at = NULL WHERE id = $1
markForReanalysis(rows, id) == updateStatus(rows, id, "pending")

\* SELECT * FROM articles WHERE status = 'pending'
findPendingForAnalysis(rows) == SelectSeq(rows, LAMBDA r : r.status = "pending")

\* a job as addAiAnalysisJob adds it; by tells who called it
NewAnalysisJob(article, topicIds, by) ==
    [articleId |-> article.id, url |-> article.url, topicIds |-> topicIds, by |-> by,
     state |-> "waiting", attemptsMade |-> 0, pc |-> "none", results |-> <<>>,
     idx |-> 1, serviceCalled |-> FALSE, serviceFailed |-> FALSE, postQueued |-> FALSE]

AnalysisInit ==
    /\ analysisJobs = <<>>
    /\ articleTopics = <<>>
    /\ postJobs = <<>>
    /\ digestJobs = [queue |-> <<>>, adds |-> 0]
    /\ MatchRest
    /\ ResponseRest
    /\ CleanupRest
    /\ SelectionRest
    /\ StagesRest
    /\ BatchRest

\* what the classification stage leaves alone
notAnalysis ==
    <<normVars, cache, job, jobsStarted, faults, history, now, limiterVars, retryVars,
      breakerVars, sources, scanLogs, scans, fetchJobs, digestJobs, matcher, callVars>>

\* processRssScan, lines 98-135, for one candidate that is new to the store:
\* the article is inserted, checked against the active topics and, when it
\* matches, a classification job is added. addFails: addAiAnalysisJob
\* rejects, which the catch of the loop records as an insert error.
StoreArticle(c, addFails) ==
    LET result == ArticleCreate(articles, c)
        created == result.rows[Len(result.rows)]
        matchedTopicIds == MatchedTopicIdsOf[c]
    IN  /\ result.created
        /\ articles' = result.rows
        /\ IF Len(matchedTopicIds) > 0
           THEN IF addFails
                THEN /\ failures < MaxAnalysisFailures
                     /\ failures' = failures + 1
                     /\ UNCHANGED analysisJobs
                ELSE /\ Len(analysisJobs) + 1 \in AnalysisJobIds
                     /\ analysisJobs' = Append(analysisJobs,
                            NewAnalysisJob(created, matchedTopicIds, "fetch"))
                     /\ UNCHANGED failures
           ELSE /\ ~addFails
                /\ UNCHANGED <<analysisJobs, failures>>
        /\ UNCHANGED <<articleTopics, postJobs, notAnalysis>>

\* POST /analyze-pending: a classification job with no topicIds is added for
\* every pending article.
AnalyzePending ==
    LET pendingArticles == findPendingForAnalysis(articles)
    IN  /\ pendingArticles # <<>>
        /\ Len(analysisJobs) + Len(pendingArticles) \in AnalysisJobIds
        /\ analysisJobs' = analysisJobs \o
               [i \in DOMAIN pendingArticles |->
                    NewAnalysisJob(pendingArticles[i], <<>>, "manual")]
        /\ UNCHANGED <<articles, articleTopics, failures, postJobs, notAnalysis>>

\* POST /articles/:id/reanalyze
Reanalyze(id) ==
    /\ id \in DOMAIN articles
    /\ articles' = markForReanalysis(articles, id)
    /\ UNCHANGED <<analysisJobs, articleTopics, failures, postJobs, notAnalysis>>

\* processAiAnalysis, line 24: the worker takes a waiting job and sets the
\* article's status to analyzing.
AnalysisStart(j) ==
    /\ j \in DOMAIN analysisJobs
    /\ analysisJobs[j].state = "waiting"
    /\ Cardinality({k \in DOMAIN analysisJobs : analysisJobs[k].state = "active"})
           < AnalysisConcurrency
    /\ articles' = updateStatus(articles, analysisJobs[j].articleId, "analyzing")
    /\ analysisJobs' = [analysisJobs EXCEPT ![j].state = "active", ![j].pc = "call"]
    /\ UNCHANGED <<articleTopics, failures, postJobs, notAnalysis>>

\* lines 28-90: the topics are looked up and analyzeArticleForTopics
\* returns its results. outcome: what the service does when it is called.
AnalysisCall(j, outcome) ==
    LET aj == analysisJobs[j]
        article == CandidateOf(aj.url)
        topics == topicsToAnalyze(aj.topicIds)
        called == ServiceCalled(article, topics)
    IN  /\ j \in DOMAIN analysisJobs
        /\ aj.pc = "call"
        /\ ~called => outcome = "low"
        /\ outcome = "fails" => failures < MaxAnalysisFailures
        /\ failures' = IF outcome = "fails" THEN failures + 1 ELSE failures
        /\ analysisJobs' = [analysisJobs EXCEPT
               ![j].pc = "save",
               ![j].idx = 1,
               ![j].serviceCalled = called,
               ![j].serviceFailed = called /\ outcome = "fails",
               ![j].postQueued = FALSE,
               ![j].results = analyzeArticleForTopics(article, topics, outcome)]
        /\ UNCHANGED <<articles, articleTopics, postJobs, notAnalysis>>

\* saveAnalysisResults, lines 44-66: one round of the loop.
AnalysisSaveRow(j) ==
    LET aj == analysisJobs[j]
    IN  /\ j \in DOMAIN analysisJobs
        /\ aj.pc = "save"
        /\ articleTopics' = saveAnalysisResult(articleTopics, aj.articleId,
                                               aj.results[aj.idx])
        /\ analysisJobs' = [analysisJobs EXCEPT
               ![j].idx = @ + 1,
               ![j].pc = IF aj.idx = Len(aj.results) THEN "update" ELSE "save"]
        /\ UNCHANGED <<articles, failures, postJobs, notAnalysis>>

\* lines 96-117: updateAnalysis with the best result. With no result at or
\* above the post-generation threshold the job returns (lines 119-148).
AnalysisUpdate(j) ==
    LET aj == analysisJobs[j]
    IN  /\ j \in DOMAIN analysisJobs
        /\ aj.pc = "update"
        /\ articles' = updateAnalysis(articles, aj.articleId,
                                      bestResult(aj.results).relevanceScore)
        /\ analysisJobs' =
               IF highRelevanceResults(aj.results) = <<>>
               THEN [analysisJobs EXCEPT ![j].state = "completed", ![j].pc = "none"]
               ELSE [analysisJobs EXCEPT ![j].pc = "post"]
        /\ UNCHANGED <<articleTopics, failures, postJobs, notAnalysis>>

\* lines 124-148: addPostGenerationJob adds a job for the article; the
\* classification job returns.
AnalysisPost(j) ==
    LET aj == analysisJobs[j]
    IN  /\ j \in DOMAIN analysisJobs
        /\ aj.pc = "post"
        /\ postJobs' = addPostGenerationJob(postJobs, aj.articleId)
        /\ analysisJobs' = [analysisJobs EXCEPT ![j].state = "completed",
                                                ![j].pc = "none",
                                                ![j].postQueued = TRUE]
        /\ UNCHANGED <<articles, articleTopics, failures, notAnalysis>>

\* lines 149-159: a call inside the try throws (a topic lookup, a save, the
\* update, addPostGenerationJob); the catch sets the status to error and
\* rethrows, and the queue counts the failed attempt.
AnalysisThrows(j) ==
    LET aj == analysisJobs[j]
    IN  /\ j \in DOMAIN analysisJobs
        /\ aj.pc \in {"call", "save", "update", "post"}
        /\ failures < MaxAnalysisFailures
        /\ failures' = failures + 1
        /\ articles' = updateStatus(articles, aj.articleId, "error")
        /\ analysisJobs' = [analysisJobs EXCEPT
               ![j].attemptsMade = @ + 1,
               ![j].pc = "none",
               ![j].state = IF aj.attemptsMade + 1 < AnalysisAttempts
                            THEN "waiting" ELSE "failed"]
        /\ UNCHANGED <<articleTopics, postJobs, notAnalysis>>

\* processPostGeneration, lines 311-339: the worker takes a waiting job, the
\* posts are generated and saved to generated_posts, and the job returns.
PostDone(i) ==
    /\ i \in DOMAIN postJobs
    /\ postJobs[i].state = "waiting"
    /\ postJobs' = [postJobs EXCEPT ![i].state = "completed"]
    /\ UNCHANGED <<articles, analysisJobs, articleTopics, failures, notAnalysis>>

\* processPostGeneration, lines 340-346: the worker takes a waiting job and
\* generatePosts or postRepo.create throws; the error is logged and
\* rethrown, and the queue counts the failed attempt.
PostThrows(i) ==
    /\ i \in DOMAIN postJobs
    /\ postJobs[i].state = "waiting"
    /\ failures < MaxAnalysisFailures
    /\ failures' = failures + 1
    /\ postJobs' = [postJobs EXCEPT
           ![i].attemptsMade = @ + 1,
           ![i].state = IF postJobs[i].attemptsMade + 1 < PostAttempts
                        THEN "waiting" ELSE "failed"]
    /\ UNCHANGED <<articles, analysisJobs, articleTopics, notAnalysis>>

AnalysisNext ==
    \/ \E c \in AnalysisCandidates : StoreArticle(c, FALSE) \/ StoreArticle(c, TRUE)
    \/ AnalyzePending
    \/ \E id \in 1..Cardinality(AnalysisCandidates) : Reanalyze(id)
    \/ \E j \in AnalysisJobIds :
         \/ AnalysisStart(j)
         \/ \E outcome \in {"high", "mid", "low", "fails"} : AnalysisCall(j, outcome)
         \/ AnalysisSaveRow(j)
         \/ AnalysisUpdate(j)
         \/ AnalysisPost(j)
         \/ AnalysisThrows(j)
         \/ PostDone(j)
         \/ PostThrows(j)

----------------------------------------------------------------------------
(* The daily-summary queue *)

DigestAttempts == 3       \* defaultJobOptions.attempts of the daily-summary queue
MaxTriggers == 4          \* digest triggers in one behaviour
DigestDates == {1, 2}

\* queues.dailySummary.add with no jobId option
addDailySummaryJobNoKey(queue, date) ==
    Append(queue, [jobId |-> <<"summary", date>>, state |-> "waiting", attemptsMade |-> 0])

\* addDailySummaryJob: the job id is summary-<date>, and the queue ignores
\* an add whose job id it already holds
addDailySummaryJob(queue, date) ==
    IF \E i \in DOMAIN queue : queue[i].jobId = <<"summary", date>>
    THEN queue
    ELSE Append(queue, [jobId |-> <<"summary", date>>, state |-> "waiting",
                        attemptsMade |-> 0])

notDigest ==
    <<normVars, pipeVars, now, limiterVars, retryVars, breakerVars, scanVars,
      analysisJobs, articleTopics, postJobs, matcher, callVars>>

\* the scheduler's daily task or triggerManualSummary(date)
TriggerDigest(date) ==
    /\ digestJobs.adds < MaxTriggers
    /\ digestJobs' = [queue |-> addDailySummaryJob(digestJobs.queue, date),
                      adds |-> digestJobs.adds + 1]
    /\ UNCHANGED notDigest

\* the daily-summary worker takes a waiting job
DigestStart(i) ==
    /\ i \in DOMAIN digestJobs.queue
    /\ digestJobs.queue[i].state = "waiting"
    /\ digestJobs' = [digestJobs EXCEPT !.queue[i].state = "active"]
    /\ UNCHANGED notDigest

\* the job returns; completed jobs are kept (removeOnComplete: {count: 30})
DigestDone(i) ==
    /\ i \in DOMAIN digestJobs.queue
    /\ digestJobs.queue[i].state = "active"
    /\ digestJobs' = [digestJobs EXCEPT !.queue[i].state = "completed"]
    /\ UNCHANGED notDigest

\* the job throws: it waits for its next attempt or is failed
DigestThrows(i) ==
    LET dj == digestJobs.queue[i]
    IN  /\ i \in DOMAIN digestJobs.queue
        /\ dj.state = "active"
        /\ digestJobs' = [digestJobs EXCEPT
               !.queue[i].attemptsMade = @ + 1,
               !.queue[i].state = IF dj.attemptsMade + 1 < DigestAttempts
                                  THEN "waiting" ELSE "failed"]
        /\ UNCHANGED notDigest

DigestNext ==
    \/ \E date \in DigestDates : TriggerDigest(date)
    \/ \E i \in 1..MaxTriggers :
         DigestStart(i) \/ DigestDone(i) \/ DigestThrows(i)

----------------------------------------------------------------------------
(* Specifications *)

\* The fetch pipeline: the workers run fetch jobs concurrently on the
\* shared cache and store.
PipelineNext ==
    \E w \in Workers :
        \/ FetchFeed(w)
        \/ FetchFailed(w)
        \/ CacheProbe(w, FALSE)
        \/ CacheProbe(w, TRUE)
        \/ DbProbe(w)
        \/ DbProbeThrows(w)
        \/ CacheWrite(w, FALSE)
        \/ CacheWrite(w, TRUE)
        \/ InsertArticle(w)
        \/ InsertThrows(w)
        \/ InsertNone(w)
        \/ MarkStored(w, FALSE)
        \/ MarkStored(w, TRUE)
        \/ MarkStoredThrows(w)
        \/ Finish(w)
        \/ JobThrows(w)

Idle == [ok |-> FALSE, reason |-> "idle"]

NormRest == item = ItemA /\ normResult = Idle

Init ==
    /\ PipelineInit /\ NormRest /\ LimiterInit /\ RetryRest /\ BreakerInit /\ ScanInit
    /\ AnalysisInit

Next == PipelineNext

Spec == Init /\ [][Next]_vars

\* The normaliser applied to one feed item drawn from NormItems.
Normalize ==
    /\ normResult = Idle
    /\ normResult' = normalizeItem(item, "s1", Today)
    /\ UNCHANGED <<item, pipeVars, now, limiterVars, retryVars, breakerVars, scanVars, analysisVars>>

NormInit ==
    /\ item \in NormItems /\ normResult = Idle
    /\ PipelineInit /\ LimiterInit /\ RetryRest /\ BreakerInit /\ ScanInit
    /\ AnalysisInit

SpecNorm == NormInit /\ [][Normalize]_vars

\* One RateLimiter shared by NumCallers concurrent callers.
SpecLimiter == Init /\ [][LimiterNext]_vars

\* One withRetry call, its options drawn from RetryOptions.
RetrySpecInit ==
    /\ PipelineInit /\ NormRest /\ LimiterInit /\ RetryInit /\ BreakerInit /\ ScanInit
    /\ AnalysisInit

SpecRetry == RetrySpecInit /\ [][RetryNext]_vars

\* One CircuitBreaker shared by NumBreakerCallers concurrent callers.
SpecBreaker == Init /\ [][BreakerNext]_vars

\* Scan requests, the orchestrator and the fetch jobs it enqueues, seen from
\* the queues and the sources and scan_logs tables.
SpecScan == Init /\ [][ScanNext]_vars

\* checkAgainstTopics applied to one article and one list of topics.
MatchSpecInit ==
    /\ PipelineInit /\ NormRest /\ LimiterInit /\ RetryRest /\ BreakerInit /\ ScanInit
    /\ analysisJobs = <<>> /\ articleTopics = <<>> /\ postJobs = <<>>
    /\ digestJobs = [queue |-> <<>>, adds |-> 0]
    /\ MatchInit
    /\ ResponseRest
    /\ CleanupRest
    /\ SelectionRest
    /\ StagesRest
    /\ BatchRest

SpecMatch == MatchSpecInit /\ [][Match]_vars

\* Fetch jobs storing articles, the classification jobs and the two manual
\* requests that touch them.
SpecAnalysis == Init /\ [][AnalysisNext]_vars

\* Digest triggers and the daily-summary worker.
SpecDigest == Init /\ [][DigestNext]_vars

\* analyzeArticleForTopics applied to one response of the service.
ResponseSpecInit ==
    /\ PipelineInit /\ NormRest /\ LimiterInit /\ RetryRest /\ BreakerInit /\ ScanInit
    /\ analysisJobs = <<>> /\ articleTopics = <<>> /\ postJobs = <<>>
    /\ digestJobs = [queue |-> <<>>, adds |-> 0]
    /\ MatchRest
    /\ ResponseInit
    /\ CleanupRest
    /\ SelectionRest
    /\ StagesRest
    /\ BatchRest

SpecResponse == ResponseSpecInit /\ [][ResponseReturns]_vars

\* One cleanup run over a table of articles.
CleanupSpecInit ==
    /\ PipelineInit /\ NormRest /\ LimiterInit /\ RetryRest /\ BreakerInit /\ ScanInit
    /\ analysisJobs = <<>> /\ articleTopics = <<>> /\ postJobs = <<>>
    /\ digestJobs = [queue |-> <<>>, adds |-> 0]
    /\ MatchRest
    /\ ResponseRest
    /\ CleanupInit
    /\ SelectionRest
    /\ StagesRest
    /\ BatchRest

SpecCleanup == CleanupSpecInit /\ [][RunCleanup]_vars

\* One incremental scan over a sources table.
SelectionSpecInit ==
    /\ PipelineInit /\ NormRest /\ LimiterInit /\ RetryRest /\ BreakerInit /\ ScanInit
    /\ analysisJobs = <<>> /\ articleTopics = <<>> /\ postJobs = <<>>
    /\ digestJobs = [queue |-> <<>>, adds |-> 0]
    /\ MatchRest
    /\ ResponseRest
    /\ CleanupRest
    /\ SelectionInit
    /\ StagesRest
    /\ BatchRest

SpecSelection == SelectionSpecInit /\ [][SelectionNext]_vars

\* One fetch job, statement by statement.
StagesSpecInit ==
    /\ PipelineInit /\ NormRest /\ LimiterInit /\ RetryRest /\ BreakerInit /\ ScanInit
    /\ analysisJobs = <<>> /\ articleTopics = <<>> /\ postJobs = <<>>
    /\ digestJobs = [queue |-> <<>>, adds |-> 0]
    /\ MatchRest
    /\ ResponseRest
    /\ CleanupRest
    /\ SelectionRest
    /\ StagesInit
    /\ BatchRest

SpecStages == StagesSpecInit /\ [][StagesNext]_vars

\* normalizeItems applied to one list of feed items.
BatchSpecInit ==
    /\ PipelineInit /\ NormRest /\ LimiterInit /\ RetryRest /\ BreakerInit /\ ScanInit
    /\ analysisJobs = <<>> /\ articleTopics = <<>> /\ postJobs = <<>>
    /\ digestJobs = [queue |-> <<>>, adds |-> 0]
    /\ MatchRest
    /\ ResponseRest
    /\ CleanupRest
    /\ SelectionRest
    /\ StagesRest
    /\ BatchInit

SpecBatch == BatchSpecInit /\ [][NormalizeBatch]_vars

----------------------------------------------------------------------------
(* Claims *)

RowsWith(h) == {i \in DOMAIN articles : articles[i].urlHash = h}

\* C1: under every interleaving of fetch jobs inserting candidates with the
\* same url hash, the articles table holds at most one row per hash; once
\* the store has executed an insert for a hash it holds exactly one row,
\* exactly one of the inserts returned a row, and the others added nothing
\* and recorded no error.
C1_OneRowPerHash ==
    \A h \in AllHashes :
        /\ Cardinality(RowsWith(h)) <= 1
        /\ Cardinality(RowsWith(h)) = createdCount[h]
        /\ insertCalls[h] > 0 => createdCount[h] = 1
        /\ faults = 0 => \A w \in Workers : job[w].errors = 0

\* two workers have both classified the same hash as new and the store has
\* executed an insert of it for each of them
C1_Witness ==
    \E h \in AllHashes :
        /\ insertCalls[h] >= 2
        /\ createdCount[h] = 1
        /\ \A w \in Workers :
              /\ h \in HashesOf(NewArticles(w))
              /\ job[w].pc \in {"insert", "markStored"}

\* C2 (as claimed): filterDuplicates never classifies as new a candidate
\* whose hash was already in the articles table when it was called.
C2_NoStoredHashClassifiedNew ==
    \A w \in Workers :
        \A i \in DOMAIN NewArticles(w) :
            NewArticles(w)[i].urlHash \notin job[w].storedAtCall

\* C3 (as claimed): whenever the cache holds 'exists' for a hash, the
\* articles table holds an article with that hash.
C3_ExistsMarkImpliesStored ==
    \A h \in AllHashes : cache[h] = "exists" => h \in StoredHashes

\* C4 (as claimed): once a hash was classified new, inserted and marked by
\* markBatchAsStored, the cache holds 'exists' for it and a filterDuplicates
\* call made afterwards does not return a candidate with that hash as new.
C4_RoundTrip ==
    /\ faults = 0 => \A h \in markedStored : cache[h] = "exists"
    /\ \A w \in Workers :
          \A i \in DOMAIN NewArticles(w) :
              NewArticles(w)[i].urlHash \notin job[w].markedAtCall

\* C5 (as claimed): no fetch job fails because a cache operation failed.
C5_CacheFailureNeverFailsJob ==
    \A w \in Workers : job[w].pc = "failed" => job[w].error # "cache"

\* C6 (as claimed): every item whose title or lede has, after markup
\* stripping, fewer than 5 resp. 30 characters is rejected by normalizeItem:
\* the candidates it returns have a stripped title of at least 5 and a
\* stripped lede of at least 30 characters.
C6_ShortTextRejected ==
    (normResult # Idle /\ normResult.ok) =>
        /\ Len(stripHtml(item.title)) >= TitleMinLength
        /\ Len(normResult.article.title) >= TitleMinLength
        /\ Len(normResult.article.lede) >= LedeMinLength

\* C7 (as claimed): when more than MaxTokens waitForToken calls are issued
\* at the same instant on a full limiter, the k-th of them to resolve does
\* not resolve before ((k - MaxTokens) / MaxTokens) * Interval has passed.
C7_ResolutionNotEarly ==
    (\A c \in Callers : waiter[c].op # "try" /\ waiter[c].issuedAt \in {NoTime, StartTime})
        => \A k \in DOMAIN resolveLog :
              k > MaxTokens =>
                  MaxTokens * (resolveLog[k].at - StartTime) >= (k - MaxTokens) * Interval

\* C8 (as claimed): the token count stays within 0..MaxTokens.
C8_TokensInRange == limiter.tokens >= 0 /\ limiter.tokens <= MaxTokens

RetryDone == retry.pc \in {"returned", "thrown"}
Retried(e) == ~e.ok /\ (IF retry.opts.retryableErrors = NoPatterns
                        THEN defaultPatterns ELSE retry.opts.retryableErrors) \in e.transient

\* C9: withRetry calls the operation until it succeeds, fails with an error
\* the policy does not retry, or has been called maxAttempts times: every
\* call but the last failed with a retried error; a success is returned, a
\* failure is thrown, and a retried failure is thrown only by call number
\* maxAttempts.
C9_RetryCalls ==
    LET n == Len(retry.log)
    IN  /\ n <= retry.opts.maxAttempts
        /\ \A i \in 1..(n - 1) : Retried(retry.log[i])
        /\ RetryDone =>
              /\ n >= 1
              /\ retry.result = retry.log[n]
              /\ retry.log[n].ok <=> retry.pc = "returned"
              /\ Retried(retry.log[n]) => n = retry.opts.maxAttempts
        /\ ~RetryDone => \A i \in 1..n : Retried(retry.log[i])

C9_Witness ==
    /\ retry.pc = "returned"
    /\ retry.opts.maxAttempts = MaxAttemptsBound
    /\ Len(retry.log) = MaxAttemptsBound

\* C10 (as claimed): with the failures at the threshold the breaker is not
\* closed; a call made while it is open and has not cooled down is rejected
\* without invoking the operation; the call made after the cool-down is
\* invoked as the trial, its success leaves the breaker closed with no
\* failures and its failure leaves it open.
C10_TrialDecides ==
    /\ breaker.failures >= Threshold => breaker.state # "closed"
    /\ \A c \in BreakerCallers :
          /\ (call[c].openAtEntry /\ ~call[c].cooledAtEntry) => call[c].pc = "rejected"
          /\ (call[c].openAtEntry /\ call[c].cooledAtEntry) =>
                 (call[c].trial /\ call[c].pc # "rejected")
    /\ lastTrial.outcome = "ok" => (lastTrial.state = "closed" /\ lastTrial.failures = 0)
    /\ lastTrial.outcome = "fail" => lastTrial.state = "open"

\* C11 (as claimed): the breaker counts consecutive failures. A success that
\* finds the breaker closed leaves the failure count at 0, and whenever the
\* breaker opens, at least Threshold failures were recorded since the last
\* success.
C11_ConsecutiveFailures ==
    /\ streak.afterSuccess = 0
    /\ streak.atOpen # NoStreak => streak.atOpen >= Threshold

\* C12 (as claimed): a call that enters execute while a half-open trial call
\* is awaiting its operation is rejected without invoking the operation.
C12_OneTrial ==
    \A c \in BreakerCallers : call[c].besideTrial => call[c].pc = "rejected"

\* the fetch job of worker w has its counts: filterDuplicates has returned
Counted(w) == job[w].pc \in {"insert", "markStored", "finish"}

\* the candidates of worker w's job whose hash is in the set stored
StoredAmong(w, stored) ==
    {i \in DOMAIN Candidates(w) : Candidates(w)[i].urlHash \in stored}

\* C13 (as claimed): the counts of a fetch job whose fetch succeeded are
\* fetched = the raw items of the feed, normalized = the items that pass
\* normalisation, newArticles + duplicates = normalized, and duplicates = the
\* candidates whose hash is stored: at least those stored when
\* filterDuplicates was called and at most those stored now.
C13_ReportedCounts ==
    \A w \in Workers :
        Counted(w) =>
            LET j == job[w]
                items == FeedItems[j.feed]
            IN  /\ j.fetched = Len(items)
                /\ Len(j.candidates) =
                       Len(items) - normalizeItems(items, "s1", Today).skipped
                /\ Len(j.newArticles) + j.duplicates = Len(j.candidates)
                /\ j.duplicates >= Cardinality(StoredAmong(w, j.storedAtCall))
                /\ j.duplicates <= Cardinality(StoredAmong(w, StoredHashes))

\* C14: a full or incremental scan that selects the sources S attempts one
\* enqueue for each source of S and none for any other source; a failed
\* enqueue is counted in errors and neither stops the loop nor fails the run,
\* so a returned run reports sourcesProcessed = |S| and
\* jobsQueued + |errors| = |S| (all zero when S is empty).
C14_OneEnqueuePerSelected ==
    \A o \in ScanIds :
        LET sc == scans[o]
            S == sc.selected
        IN  /\ \A s \in SourceIds :
                 /\ sc.enqueues[s] <= 1
                 /\ sc.enqueues[s] > 0 => s \in S
            /\ sc.failedBy # "enqueue"
            /\ sc.state = "completed" =>
                 /\ \A s \in S : sc.enqueues[s] = 1
                 /\ sc.sourcesProcessed = Cardinality(S)
                 /\ sc.jobsQueued + sc.errors = Cardinality(S)

\* C15: at most one scan-orchestration job is being processed at any time;
\* the runs of queued scan requests execute one after another.
C15_OneOrchestration ==
    Cardinality({o \in ScanIds : scans[o].state = "active"}) <= 1

\* a run is in its enqueue loop while a later scan request waits
C15_Witness ==
    /\ scans[1].state = "active"
    /\ scans[1].pending # <<>>
    /\ scans[1].jobsQueued > 0
    /\ scans[2].state = "waiting"

\* the fetch jobs of a source that are waiting or active
Outstanding(s) ==
    {j \in JobIds : j[2] = s /\ fetchJobs[j].state \in {"waiting", "active"}}

\* C16: overlapping full scans do not double-enqueue: no two fetch jobs of
\* full scans for the same source are waiting or active at the same time.
C16_NoDoubleEnqueue ==
    \A s \in SourceIds :
        Cardinality({j \in Outstanding(s) : scans[j[1]].type = "full"}) <= 1

\* a fetch attempt of job j throws in this step
Throws(j) == fetchJobs'[j].attemptsMade = fetchJobs[j].attemptsMade + 1

\* the records of the run of scan o that make up its outcome
Outcome(sc) ==
    <<sc.state, sc.failedBy, sc.sourcesProcessed, sc.jobsQueued, sc.errors>>

\* the step of a throwing attempt of job j: the attempt is counted, the job
\* waits for a retry below the attempt limit and is failed at the limit, its
\* source's error counter and last error are written, and nothing of another
\* source, of another fetch job or of an orchestration run changes
ThrowIsolated(j) ==
    /\ fetchJobs'[j].attemptsMade <= Attempts
    /\ fetchJobs'[j].state =
         (IF fetchJobs'[j].attemptsMade = Attempts THEN "failed" ELSE "waiting")
    /\ sources'[j[2]].lastError = "thrown"
    /\ sources'[j[2]].errorCount >= 1
    /\ \A s \in SourceIds \ {j[2]} :
         sources'[s] = sources[s] /\ scanLogs'[s] = scanLogs[s]
    /\ \A k \in JobIds \ {j} : fetchJobs'[k] = fetchJobs[k]
    /\ \A o \in ScanIds : Outcome(scans'[o]) = Outcome(scans[o])

\* a failed fetch job has used its attempts; no other step moves it
FailedStays(j) ==
    fetchJobs[j].state = "failed" =>
        /\ fetchJobs[j].attemptsMade = Attempts
        /\ fetchJobs'[j] = fetchJobs[j]

C18_SuccessfulFetchResets ==
    [][\A j \in JobIds :
          (fetchJobs[j].pc = "stages" /\ fetchJobs'[j].pc # "stages") =>
              /\ sources'[j[2]].errorCount = 0
              /\ sources'[j[2]].lastError = "none"
              /\ sources'[j[2]].lastFetched = "recent"]_vars

Terminal == {"completed", "failed", "partial"}

\* C19: a scan log with status completed, failed or partial keeps that
\* status in every later step; it never returns to running.
C19_TerminalStays ==
    [][/\ \A s \in SourceIds : \A k \in DOMAIN scanLogs[s] :
             scanLogs[s][k] \in Terminal =>
                 /\ k \in DOMAIN scanLogs'[s]
                 /\ scanLogs'[s][k] = scanLogs[s][k]
       /\ \A o \in ScanIds :
             scans[o].manualLog \in Terminal =>
                 scans'[o].manualLog = scans[o].manualLog]_vars

\* a source has a terminal scan log and a later attempt has created a log
\* of its own for the same source
C19_Witness ==
    \E s \in SourceIds :
        /\ Len(scanLogs[s]) >= 2
        /\ scanLogs[s][1] \in Terminal
        /\ scanLogs[s][2] \in Terminal

\* the fetch jobs that scan request o enqueued and that are waiting or active
OutstandingOf(o) ==
    {j \in JobIds : j[1] = o /\ fetchJobs[j].state \in {"waiting", "active"}}

\* C20: a scan log is running only while the job it belongs to is
\* outstanding: the log of a fetch attempt only while a fetch job of its
\* source is waiting (for a retry) or active, the log of a manual trigger
\* only while its scan request or one of the fetch jobs it enqueued is.
C20_RunningOnlyWhileOutstanding ==
    /\ \A s \in SourceIds : \A k \in DOMAIN scanLogs[s] :
          scanLogs[s][k] = "running" => Outstanding(s) # {}
    /\ \A o \in ScanIds :
          scans[o].manualLog = "running" =>
              \/ scans[o].state \in {"waiting", "active"}
              \/ OutstandingOf(o) # {}

\* C21: a scan log ends failed only if the orchestration step itself could
\* not proceed; a fetch failure of one source does not by itself produce
\* status failed.
C21_FailedOnlyByOrchestration ==
    \A s \in SourceIds : \A k \in DOMAIN scanLogs[s] :
        scanLogs[s][k] = "failed" =>
            \E o \in ScanIds : scans[o].state = "failed"

\* C22: fetchFeed never throws for a retrieval failure: whatever withRetry
\* throws (an error it does not retry, or the last error once the attempts
\* are used up), the result has success = false, itemCount = 0 and an error
\* message, and the fetch job that called it returns instead of throwing.
C22_FetchFeedNeverThrows ==
    /\ fetchResult.pc \in {"none", "result", "jobReturned", "jobContinues"}
    /\ (fetchResult.pc # "none" /\ retry.pc = "thrown") =>
          /\ fetchResult.pc \in {"result", "jobReturned"}
          /\ ~fetchResult.success
          /\ fetchResult.itemCount = 0
          /\ fetchResult.error # <<>>
    /\ (fetchResult.pc # "none" /\ retry.pc = "returned") =>
          fetchResult.success /\ fetchResult.pc \in {"result", "jobContinues"}

\* the job has returned after retrievals that failed three times, under the
\* retry patterns fetchFeed passes
C22_Witness ==
    /\ fetchResult.pc = "jobReturned"
    /\ retry.pc = "thrown"
    /\ Len(retry.log) = 3
    /\ retry.opts.retryableErrors = fetchFeedPatterns

AllowedEdges ==
    {<<"pending", "analyzing">>, <<"analyzing", "relevant">>,
     <<"analyzing", "irrelevant">>, <<"analyzing", "error">>,
     <<"relevant", "pending">>, <<"irrelevant", "pending">>}

\* C23: the status of a stored article changes only along pending ->
\* analyzing, analyzing -> relevant | irrelevant | error and relevant |
\* irrelevant -> pending, under any sequence of classification jobs, their
\* retries and re-analysis requests.
C23_StatusEdges ==
    [][\A i \in DOMAIN articles :
          articles'[i].status # articles[i].status =>
              <<articles[i].status, articles'[i].status>> \in AllowedEdges]_vars

\* the attempt of classification job j ends in this step
AttemptEnds(j) ==
    /\ j \in DOMAIN analysisJobs
    /\ analysisJobs[j].state = "active"
    /\ analysisJobs'[j].state # "active"

\* C24: when the classification call of a job failed, the job leaves its
\* article in status error, and no source, scan log or other article is
\* modified.
C24_ServiceFailureGivesError ==
    [][\A j \in DOMAIN analysisJobs :
          (AttemptEnds(j) /\ analysisJobs[j].serviceFailed) =>
              /\ articles'[analysisJobs[j].articleId].status = "error"
              /\ \A i \in DOMAIN articles :
                     i # analysisJobs[j].articleId => articles'[i] = articles[i]
              /\ sources' = sources
              /\ scanLogs' = scanLogs]_vars

\* the active topics whose keywords the stored article matched
MatchedTopicIds(row) == MatchedTopicIdsOf[CandidateOf(row.url)]

\* C25: a classification job is enqueued, and the classification service
\* called, only for an article that matched the keywords of at least one
\* active topic.
C25_OnlyMatchedClassified ==
    \A j \in DOMAIN analysisJobs :
        analysisJobs[j].serviceCalled =>
            MatchedTopicIds(articles[analysisJobs[j].articleId]) # <<>>

\* the classification jobs that fetch jobs enqueued for article id
FetchEnqueued(id) ==
    {j \in DOMAIN analysisJobs :
         analysisJobs[j].articleId = id /\ analysisJobs[j].by = "fetch"}

\* C26: every article a fetch job stored that matches at least one active
\* topic has exactly one classification job enqueued for it by the fetch
\* jobs, carrying exactly the ids of the matched topics.
C26_OneJobPerMatchedArticle ==
    \A i \in DOMAIN articles :
        MatchedTopicIds(articles[i]) # <<>> =>
            /\ Cardinality(FetchEnqueued(i)) = 1
            /\ \A j \in FetchEnqueued(i) :
                   analysisJobs[j].topicIds = MatchedTopicIds(articles[i])

\* C27: there is at most one article-topic result per (article, topic)
\* pair; a save for a pair that has a result overwrites it.
C27_OneResultPerPair ==
    \A i, k \in DOMAIN articleTopics :
        (/\ articleTopics[i].articleId = articleTopics[k].articleId
         /\ articleTopics[i].topicId = articleTopics[k].topicId) => i = k

\* two classification jobs of one article are active at once, both have
\* saved results, and a result has been written twice
C27_Witness ==
    /\ \E j, k \in DOMAIN analysisJobs :
           /\ j # k
           /\ analysisJobs[j].articleId = analysisJobs[k].articleId
           /\ analysisJobs[j].state = "active" /\ analysisJobs[j].idx > 1
           /\ analysisJobs[k].state = "active" /\ analysisJobs[k].idx > 1
    /\ \E i \in DOMAIN articleTopics : articleTopics[i].saves >= 2

\* C28: any number of digest triggers for a date result in at most one job
\* for that date in the daily-summary queue: the job key is summary-<date>
\* and an add with a key the queue holds adds nothing.
C28_OneDigestPerDate ==
    \A i, k \in DOMAIN digestJobs.queue :
        digestJobs.queue[i].jobId = digestJobs.queue[k].jobId => i = k

\* four triggers over two dates have left two jobs, one of them taken by
\* the worker
C28_Witness ==
    /\ digestJobs.adds = 4
    /\ Len(digestJobs.queue) = 2
    /\ \E i \in DOMAIN digestJobs.queue : digestJobs.queue[i].state = "active"

\* C29: a re-analysis request for article Z leaves Z pending with a
\* classification job for Z waiting in the queue.
C29_ReanalysisEnqueues ==
    [][\A i \in DOMAIN articles :
          (articles[i].status \in {"relevant", "irrelevant"}
           /\ articles'[i].status = "pending") =>
              \E j \in DOMAIN analysisJobs' :
                  /\ analysisJobs'[j].articleId = i
                  /\ analysisJobs'[j].state = "waiting"]_vars

SameLetter(a, b) ==
    a = b \/ \E i \in DOMAIN UpperCase : {a, b} = {UpperCase[i], LowerCase[i]}

\* keyword occurs in text at some position, letters compared without case
OccursIn(keyword, text) ==
    \E p \in 0..(Len(text) - Len(keyword)) :
        \A n \in 1..Len(keyword) : SameLetter(text[p + n], keyword[n])

\* the ids of the topics of the list with a keyword occurring in the
\* article's title and lede
MatchingIds(article, topics) ==
    {topics[i].id : i \in
        {i \in DOMAIN topics :
            \E k \in DOMAIN topics[i].keywords :
                OccursIn(topics[i].keywords[k],
                         article.title \o <<" ">> \o article.lede)}}

Ids(list) == {list[i] : i \in DOMAIN list}

\* C30: checkAgainstTopics returns, as a set, exactly the ids of the topics
\* with a keyword that occurs as a case-insensitive substring of the title
\* and lede, and the set is the same for every ordering of the topics.
C30_MatchedSet ==
    matcher.pc = "done" =>
        /\ Ids(matcher.result) = MatchingIds(matcher.article, matcher.topics)
        /\ \A other \in TopicLists :
               Ids([i \in DOMAIN other |-> other[i].id])
                   = Ids([i \in DOMAIN matcher.topics |-> matcher.topics[i].id]) =>
                   Ids(checkAgainstTopics(matcher.article, other)) = Ids(matcher.result)

\* three topics were given, two of them matched, one only by a keyword in
\* another case than the text
C30_Witness ==
    /\ matcher.pc = "done"
    /\ Len(matcher.topics) = 3
    /\ Ids(matcher.result) = {TopicTax.id, TopicForm.id}
    /\ matcher.article.lede = <<"f", "o", "r", "m">>

\* the entries the service sent for the topic
EntriesFor(id) ==
    {i \in DOMAIN response.results :
         response.results[i].type = "object" /\ response.results[i].topic_id = id}

\* the entry is a well-formed one: a score within 0..1 and a reasoning
ValidEntry(e) ==
    /\ e.type = "object"
    /\ e.relevance_score.type = "number" /\ e.relevance_score.value \in 0..10
    /\ e.reasoning # "undefined"

\* the response has no usable entry for the topic: none at all, or only
\* entries that are not well-formed
MalformedOrMissing(id) ==
    \A i \in DOMAIN response.results :
        \/ response.results[i].type = "null"
        \/ response.results[i].topic_id # id
        \/ ~ValidEntry(response.results[i])

ResultFor(id) ==
    response.out[CHOOSE t \in DOMAIN response.out : response.out[t].topicId = id]

\* C31: when the response for topics {T1, T2} has a valid entry for T1 and a
\* malformed or missing one for T2, the result for T2 has score 0 and a
\* placeholder reasoning, the result for T1 has the service's values, and
\* the results cover every requested topic exactly once.
C31_PerTopicFallback ==
    (response.pc = "done" /\ Len(response.topics) = 2) =>
        /\ Len(response.out) = Len(response.topics)
        /\ \A t \in DOMAIN response.topics : response.out[t].topicId = response.topics[t].id
        /\ \A t1, t2 \in {TopicTax.id, TopicNorm.id} :
               (/\ t1 # t2
                /\ Cardinality(EntriesFor(t1)) = 1
                /\ \A i \in EntriesFor(t1) : ValidEntry(response.results[i])
                /\ MalformedOrMissing(t2)) =>
                   /\ ResultFor(t2).relevanceScore = 0
                   /\ ResultFor(t2).reasoning \in {ReasoningMissing, ReasoningError}
                   /\ \A i \in EntriesFor(t1) :
                          /\ ResultFor(t1).relevanceScore
                                 = response.results[i].relevance_score.value
                          /\ ResultFor(t1).reasoning = response.results[i].reasoning

\* C32: a cleanup run deletes every non-relevant article older than 90 days
\* and no relevant article; articles of at most 90 days are untouched and no
\* fetch job is enqueued.
C32_CleanupDeletes ==
    cleanup.pc = "done" =>
        /\ cleanup.after =
               SelectSeq(cleanup.rows, LAMBDA r :
                   r.status = "relevant" \/ r.age <= ArticleRetentionDays)
        /\ cleanup.result.jobsQueued = 0
        /\ \A j \in JobIds : fetchJobs[j].state = "none"

\* C33: an incremental scan, scoped to one source or not, adds fetch jobs
\* only for sources that are active, of type rss and due; they come
\* never-fetched first and then oldest last_fetched_at first, and at most
\* 20 are selected.
C33_IncrementalSelection ==
    selection.pc = "done" =>
        LET table == selection.table
            jobs == selection.enqueued
        IN  /\ \A i \in DOMAIN jobs : isDue(table[jobs[i]])
            /\ \A i, k \in DOMAIN jobs :
                   i < k =>
                       \/ table[jobs[i]].lastFetchedAt = NullTime
                       \/ /\ table[jobs[k]].lastFetchedAt # NullTime
                          /\ table[jobs[i]].lastFetchedAt <= table[jobs[k]].lastFetchedAt
            /\ Len(jobs) <= BatchLimit

\* C34: a content-generation job is enqueued for an article after its
\* classification exactly when at least one of its topic scores reaches that
\* topic's activation threshold.
C34_PostJobAtTopicThreshold ==
    \A j \in DOMAIN analysisJobs :
        analysisJobs[j].state = "completed" =>
            (analysisJobs[j].postQueued <=>
                 \E i \in DOMAIN analysisJobs[j].results :
                     analysisJobs[j].results[i].relevanceScore
                         >= minRelevanceScore(analysisJobs[j].results[i].topicId))

\* content generation fails in this step: addPostGenerationJob rejects in a
\* classification job, or an attempt of a post-generation job throws
PostGenerationFails ==
    \/ \E j \in DOMAIN analysisJobs :
           analysisJobs[j].pc = "post" /\ analysisJobs'[j].attemptsMade > analysisJobs[j].attemptsMade
    \/ \E i \in DOMAIN postJobs :
           postJobs'[i].attemptsMade > postJobs[i].attemptsMade

\* C35: a failure of content generation leaves the classification result
\* unchanged: the article's status and its article-topic results are as
\* before the failure.
C35_PostFailureKeepsClassification ==
    [][PostGenerationFails => (articles' = articles /\ articleTopics' = articleTopics)]_vars

\* the place of a stage in the order fetch, normalize, dedup, match,
\* persist, enqueue-next
StageRank(name) ==
    CASE name = "fetch" -> 1
      [] name = "normalize" -> 2
      [] name = "dedup" -> 3
      [] name = "match" -> 4
      [] name = "persist" -> 5
      [] name = "enqueue-next" -> 6

\* C36: within one fetch job the stages run strictly in the order fetch,
\* normalize, dedup, match, persist, enqueue-next: no stage starts before
\* the previous one has finished, and a candidate is matched against the
\* topics before it is persisted.
C36_StagesInOrder ==
    /\ \A i, k \in DOMAIN stages.log :
           i < k => StageRank(stages.log[i].stage) <= StageRank(stages.log[k].stage)
    /\ \A i, k \in DOMAIN stages.log :
           (/\ stages.log[i].stage = "persist" /\ stages.log[k].stage = "match"
            /\ stages.log[i].item = stages.log[k].item) => k < i

\* the rejection rules in their order
RuleOrder ==
    <<"missing_link", "missing_or_short_title", "invalid_url", "insufficient_content",
      "too_old">>

\* the item fails the rule, each rule judged on its own
FailsRule(it, rule) ==
    CASE rule = "missing_link" -> it.link = NoText
      [] rule = "missing_or_short_title" -> Len(Trim(it.title)) < TitleMinLength
      [] rule = "invalid_url" -> cleanUrl(it.link) = NoText
      [] rule = "insufficient_content" -> Len(extractLede(it)) < LedeMinLength
      [] rule = "too_old" ->
             /\ parseDate(FirstDate(it), Today) # NoDate
             /\ parseDate(FirstDate(it), Today) < Today - FreshnessDays

\* the first rule of the order that the item fails is rule number n
FirstFailed(it, n) ==
    /\ FailsRule(it, RuleOrder[n])
    /\ \A m \in 1..(n - 1) : ~FailsRule(it, RuleOrder[m])

RECURSIVE SumOver(_, _)
SumOver(f, S) ==
    IF S = {} THEN 0
    ELSE LET x == CHOOSE y \in S : TRUE IN f[x] + SumOver(f, S \ {x})

\* C37: normalizeItems counts every rejected item under exactly one reason,
\* the first rule it fails in the order missing link, short or missing
\* title, invalid URL, insufficient lede, stale date; candidates + skipped is
\* the number of items and the reason counts sum to skipped.
C37_FirstFailedRuleCounted ==
    batch.pc = "done" =>
        /\ \A n \in DOMAIN RuleOrder :
               batch.result.reasons[RuleOrder[n]] =
                   Cardinality({i \in DOMAIN batch.items : FirstFailed(batch.items[i], n)})
        /\ Len(batch.result.articles) =
               Cardinality({i \in DOMAIN batch.items :
                   \A n \in DOMAIN RuleOrder : ~FailsRule(batch.items[i], RuleOrder[n])})
        /\ Len(batch.result.articles) + batch.result.skipped = Len(batch.items)
        /\ SumOver(batch.result.reasons, Reasons) = batch.result.skipped

\* an item with no link and a short title was counted as missing link, next
\* to an item that passed every rule
C37_Witness ==
    /\ batch.pc = "done"
    /\ Len(batch.items) = 2
    /\ batch.items[1].link = NoText /\ batch.items[1].title = Title4
    /\ batch.result.reasons["missing_link"] = 1
    /\ batch.result.skipped = 1
    /\ Len(batch.result.articles) = 1

\* worker w's cache probe returns in this step and the cache answered
ProbeAnswered(w) ==
    /\ job[w].pc = "cacheProbe"
    /\ job'[w].pc # "cacheProbe"
    /\ faults' = faults

\* the positions in a list of positions, as a set
PositionSet(list) == {list[i] : i \in DOMAIN list}

\* C38: once a fetch job has marked hash h 'new' in the cache, another fetch
\* job that probes the cache classifies h as new from the cache alone and
\* makes no store query for h.
C38_CacheMarkSavesStoreQuery ==
    [][\A w \in Workers :
          /\ ProbeAnswered(w) =>
                 \A i \in DOMAIN job[w].candidates :
                     cache[job[w].candidates[i].urlHash] = "new" =>
                         /\ i \in PositionSet(job'[w].newArticles)
                         /\ i \notin PositionSet(job'[w].needsDbCheck)
          /\ (job[w].pc = "dbProbe" /\ job'[w].pc = "cacheWrite") =>
                 job'[w].dbChecks = Len(job[w].needsDbCheck)]_vars

\* worker 2 has classified a candidate as new from the mark that worker 1
\* wrote, without a store query, while worker 1 has not yet inserted
C38_Witness ==
    /\ job[1].pc = "insert" /\ job[1].dbChecks > 0 /\ job[1].idx = 1
    /\ job[2].pc = "insert" /\ job[2].dbChecks = 0 /\ job[2].needsDbCheck = <<>>
    /\ job[2].newArticles # <<>>
    /\ job[2].cacheHits = Len(job[2].candidates)
    /\ articles = <<>>
    /\ \A i \in DOMAIN job[2].candidates : cache[job[2].candidates[i].urlHash] = "new"

RECURSIVE Power(_, _)
Power(base, exponent) ==
    IF exponent = 0 THEN 1 ELSE base * Power(base, exponent - 1)

\* The wait the backoff rule names for the k-th retry
BackoffDelay(opts, k) ==
    Min(opts.initialDelayMs * Power(opts.backoffMultiplier, k - 1), opts.maxDelayMs)

\* C39: in withRetry the wait before the k-th retry is
\* min(initialDelayMs * backoffMultiplier^(k-1), maxDelayMs), so the waits
\* never decrease and never exceed maxDelayMs; no wait follows the last
\* attempt or a failure that is not retryable; and onRetry is called once
\* per retry, with that delay.
C39_BackoffDelays ==
    /\ \A k \in 1..Len(retry.sleeps) :
          /\ retry.sleeps[k] = BackoffDelay(retry.opts, k)
          /\ retry.sleeps[k] <= retry.opts.maxDelayMs
          /\ k > 1 => retry.sleeps[k - 1] <= retry.sleeps[k]
    /\ Len(retry.sleeps) <= retry.opts.maxAttempts - 1
    /\ Len(retry.onRetry) = Len(retry.sleeps) + (IF retry.pc = "sleep" THEN 1 ELSE 0)
    /\ \A k \in 1..Len(retry.onRetry) :
          /\ retry.onRetry[k].attempt = k
          /\ isRetryableError(retry.log[k], retry.opts.retryableErrors)
          /\ k <= Len(retry.sleeps) => retry.onRetry[k].delay = retry.sleeps[k]
    /\ retry.pc = "thrown" =>
          Len(retry.sleeps) = Len(retry.log) - 1

\* a fetch job's step in which fetchFeed returns success = false
FetchFailureStep == stages.pc = "fetch" /\ stages'.pc = "done"

\* C40: when fetchFeed returns a structured failure, the fetch job adds
\* exactly 1 to the source's error_count and sets last_error, leaves
\* last_fetched_at and the other sources alone, inserts no article and
\* enqueues no classification job, closes the scan log it created, and
\* returns with all counts 0 instead of throwing, so that the queue does not
\* run it again; nothing follows the return.
C40_FetchFailureRecorded ==
    [][/\ FetchFailureStep =>
            LET s == stages.sourceId
            IN  /\ stages'.rows[s].errorCount = stages.rows[s].errorCount + 1
                /\ stages'.rows[s].lastError = "fetch"
                /\ stages'.rows[s].lastFetched = stages.rows[s].lastFetched
                /\ \A o \in SourceIds \ {s} : stages'.rows[o] = stages.rows[o]
                /\ \A k \in DOMAIN stages'.log :
                       stages'.log[k].stage \notin {"persist", "enqueue-next"}
                /\ Len(stages'.logs[s]) = Len(stages.logs[s]) + 1
                /\ stages'.scanLog = Len(stages'.logs[s])
                /\ stages'.logs[s][stages'.scanLog] = "failed"
                /\ stages'.counts = NoCounts
                /\ stages'.state = "completed"
       /\ stages.pc = "done" => stages' = stages]_vars

\* a failed fetch of the source that already carries an error has returned
C40_Witness ==
    /\ stages.pc = "done"
    /\ stages.log = <<Stage("fetch", 0)>>
    /\ stages.items # <<>>
    /\ stages.rows[stages.sourceId].errorCount = 2
    /\ stages.logs[stages.sourceId] = <<"failed">>

====
